---- MODULE Spec2Model ----
(***************************************************************************)
(* Order pricing and fulfilment engine of the marketplace backend:         *)
(* create_order, update_order_status and cancel_customer_order             *)
(* (orders/views.py), calculate_order_totals (orders/utils.py), the        *)
(* coupon checks (coupons/models.py) and the stock bookkeeping of          *)
(* Product / ProductVariant (products/models.py).                          *)
(*                                                                         *)
(* Money is counted in paise (1/100 rupee).  A value that has not yet      *)
(* been stored in a DecimalField(decimal_places=2) column is counted in    *)
(* 1/100 paise ("fine" units) and is quantized when the row is written.    *)
(*                                                                         *)
(* Each worker handles one request at a time.  A handler is split at its   *)
(* database statements: reads see the committed rows (plus the writes of   *)
(* the worker's own open transaction), writes outside transaction.atomic   *)
(* are committed at once, writes inside it are committed together.         *)
(*                                                                         *)
(* Scope: a shop with its seller, two customers, a product without         *)
(* variants and a product with one variant (size only, no colour), one     *)
(* coupon; orders are placed by customers.  The checks of a handler up to  *)
(* its first write read the committed rows in one step; a save() together  *)
(* with the update_total_stock() it triggers is one step.                  *)
(*                                                                         *)
(* Spec and SeqSpec run the order handlers side by side and one after the  *)
(* other.  CatalogSpec runs the seller's product endpoints                 *)
(* (products/views.py) and the admin's edits of products and variants.     *)
(* CheckoutSpec runs create_order and validate_coupon (coupons/views.py)   *)
(* over two shops and the coupons a seller can set up, while the admin     *)
(* rejects shops.                                                          *)
(* AccessSpec runs the order handlers, get_order_detail and the seller's   *)
(* edits of products, variants and coupons (coupons/views.py) over the     *)
(* orders of two shops, of which the seller owns one.  ReviewSpec runs     *)
(* create_review (reviews/views.py) side by side with create_order and     *)
(* cancel_customer_order, starting with one delivered order.               *)
(***************************************************************************)
EXTENDS Integers, Sequences, FiniteSets, TLC

VARIABLES
    products,   \* Product rows:        id -> row
    variants,   \* ProductVariant rows: id -> row
    coupons,    \* Coupon rows:         id -> row
    usages,     \* CouponUsage rows, in insertion order
    orders,     \* Order rows with their OrderItems; order_number = index
    now,        \* timezone.now()
    rounding,   \* how the database backend rounds a decimal to 2 places
    req,        \* worker -> the request it is handling
    last,       \* the response on its way to the client, NoResponse when there is none
    restored,   \* history: order_number -> stock credits / coupon decrements done by cancellations
    faults,     \* history: database errors that have occurred
    accepted,   \* history: requests that passed their checks, a create_order counted twice
    mode,       \* "serial": one worker handles the requests; "parallel": all workers do
    supply,     \* history: the stock every product and variant started with
    allshops,   \* Shop rows:           id -> row
    reviews     \* Review rows, in insertion order

vars == <<products, variants, coupons, usages, orders, now, rounding, req, last, restored,
          faults, accepted, mode, supply, allshops, reviews>>

tables == <<products, variants, coupons, usages, orders>>

----------------------------------------------------------------------------
\* Bounds of the model

MaxOrders == 2      \* orders that can be created
MaxQty == 1         \* largest quantity on a cart line
MaxCart == 2        \* largest number of cart lines
MaxFaults == 1      \* database errors that occur
SeqLoad == 5        \* requests passing their checks one after the other, a created order counted twice
ConcLoad == 4       \* requests passing their checks side by side, a created order counted twice
CatLoad == 3        \* catalogue edits that succeed
MaxProducts == 3    \* products that can exist
MaxVariants == 3    \* variants that can exist
MaxStock == 1       \* largest stock a seller enters
ShopLoad == 3       \* checkout requests passing their checks, a created order counted twice, and shop rejections
RevLoad == 4        \* requests passing their checks while products are reviewed, a created order counted twice
AccLoad == 3        \* requests on the orders of two shops passing their checks, a created order counted twice

----------------------------------------------------------------------------
\* The universe

Null == -1

Workers == {"w1", "w2"}
Customers == {"c1", "c2"}
Sellers == {"s1"}
Users == Customers \cup Sellers

ProductIds == {1, 2}
VariantIds == {1}
CouponIds == {1}
ShopIds == {1, 2}

NoSize == "none"
Sizes == {NoSize, "M"}
Codes == {"", "SAVE"}

Statuses == {"placed", "confirmed", "shipped", "delivered", "cancelled"}

user_type(u) == IF u \in Sellers THEN "seller" ELSE "customer"

\* request.user.shop: the shop owned by a seller
ShopOf(u) == IF u = "s1" THEN 1 ELSE Null

CartLines == [product_id : ProductIds, quantity : 1..MaxQty, size : Sizes]

Carts == UNION {[1..n -> CartLines] : n \in 0..MaxCart}

----------------------------------------------------------------------------
\* Arithmetic helpers

RECURSIVE SeqSum(_)
SeqSum(s) == IF s = <<>> THEN 0 ELSE Head(s) + SeqSum(Tail(s))

MinOf(S) == CHOOSE x \in S : \A y \in S : x <= y

\* A decimal with more than 2 places written to a DecimalField(decimal_places=2)
\* column: Django's format_number quantizes with the decimal context's
\* ROUND_HALF_EVEN; a backend that receives the Decimal unchanged rounds a
\* numeric(10,2) half away from zero.  x is in fine units, the result in paise.
Quantize(x) ==
    LET q == x \div 100
        r == x % 100
    IN  IF r < 50 THEN q
        ELSE IF r > 50 THEN q + 1
        ELSE IF rounding = "half_even" /\ q % 2 = 0 THEN q
        ELSE q + 1

----------------------------------------------------------------------------
\* Rows

\* Product.save(): display_price is recomputed from base_price and
\* commission_rate (a whole percentage here) when both are non-zero.
ProductSave(p) ==
    [p EXCEPT !.display_price =
        IF p.base_price # 0 /\ p.commission_rate # 0
        THEN Quantize(p.base_price * (100 + p.commission_rate))
        ELSE @]

RECURSIVE SumStock(_, _)
SumStock(V, S) ==
    IF S = {} THEN 0
    ELSE LET v == CHOOSE x \in S : TRUE
         IN  V[v].stock_quantity + SumStock(V, S \ {v})

\* Product.update_total_stock(): the sum over the active variants (0 without any)
TotalStock(V, pid) ==
    SumStock(V, {v \in DOMAIN V : V[v].product = pid /\ V[v].is_active})

\* Product.get_variant(size=...): the first active variant with that size
GetVariant(V, pid, size) ==
    LET m == {v \in DOMAIN V : V[v].product = pid /\ V[v].is_active /\ V[v].size = size}
    IN  IF m = {} THEN Null ELSE MinOf(m)

\* PositiveIntegerField: the column refuses a negative value (IntegrityError)
FitsPositiveIntegerField(n) == n >= 0

\* Coupon.is_valid()
is_valid(c) ==
    IF ~c.is_active THEN "inactive"
    ELSE IF now < c.valid_from THEN "not_yet_valid"
    ELSE IF now > c.valid_to THEN "expired"
    ELSE IF c.max_uses # Null /\ c.max_uses # 0 /\ c.times_used >= c.max_uses
         THEN "limit_reached"
    ELSE "valid"

\* The CouponUsage rows of (coupon, customer)
UsageCount(U, cid, user) ==
    Cardinality({i \in DOMAIN U : U[i].coupon = cid /\ U[i].customer = user})

\* can_user_use counting only the uses whose order is not cancelled
can_user_use_open_orders(cid, user) ==
    Cardinality({i \in DOMAIN usages :
                    /\ usages[i].coupon = cid
                    /\ usages[i].customer = user
                    /\ orders[usages[i].order].order_status # "cancelled"})
        < coupons[cid].max_uses_per_customer

\* Coupon.can_user_use(user)
can_user_use(cid, user) ==
    UsageCount(usages, cid, user) < coupons[cid].max_uses_per_customer

BlankCoupon ==
    [shop |-> Null, code |-> "", discount_type |-> "", discount_value |-> 0,
     applicability |-> "", category |-> Null, product |-> Null,
     min_order_value |-> 0, max_uses |-> Null, max_uses_per_customer |-> 0,
     valid_from |-> 0, valid_to |-> 0, is_active |-> FALSE, times_used |-> 0]

BlankProduct ==
    [shop |-> Null, category |-> Null, base_price |-> 0, commission_rate |-> 0,
     display_price |-> 0, stock_quantity |-> 0, is_active |-> FALSE,
     average_rating |-> 0, review_count |-> 0]

BlankOrder ==
    [customer |-> "", shop |-> Null, subtotal |-> 0, cod_fee |-> 0,
     coupon |-> Null, coupon_discount |-> 0, total_amount |-> 0,
     commission_amount |-> 0, seller_payout_amount |-> 0,
     order_status |-> "", payment_status |-> "",
     confirmed_at |-> FALSE, shipped_at |-> FALSE, delivered_at |-> FALSE,
     cancelled_at |-> FALSE, items |-> <<>>]

\* The coupons a seller may have set up
CouponConfigs ==
    {[BlankCoupon EXCEPT !.shop = 1, !.code = "SAVE", !.discount_type = "percentage",
        !.discount_value = 50, !.applicability = "all", !.max_uses = 1,
        !.max_uses_per_customer = 1, !.valid_to = 2, !.is_active = TRUE]}

----------------------------------------------------------------------------
\* Requests

BlankTotals ==
    [error |-> "", items |-> <<>>, subtotal |-> 0, cod_fee |-> 0, total_amount |-> 0,
     commission_amount |-> 0, seller_payout_amount |-> 0]

IdleReq ==
    [op |-> "none", pc |-> "idle", user |-> "", cart |-> <<>>, code |-> "",
     target |-> 0, new_status |-> "",
     totals |-> BlankTotals, shop |-> Null, coupon |-> Null, cobj |-> BlankCoupon,
     discount |-> 0, idx |-> 0, log |-> <<>>, order |-> BlankOrder,
     before |-> <<>>, faulted |-> FALSE,
     product |-> Null, rating |-> 0, pobj |-> BlankProduct]

\* A request as received
Received(op, user, cart, code, target, new_status) ==
    [IdleReq EXCEPT !.op = op, !.user = user, !.cart = cart, !.code = code,
                    !.target = target, !.new_status = new_status]

\* The response: an HTTP status and, for a 400, the reason, with the caller and
\* what the request named (the order or product, the cart, the coupon code)
Response(r, outcome, reason) ==
    [op |-> r.op, user |-> r.user, target |-> r.target, new_status |-> r.new_status,
     cart |-> r.cart, code |-> r.code, product |-> r.product,
     outcome |-> outcome, reason |-> reason, faulted |-> r.faulted]

NoResponse == Response(IdleReq, "", "")

\* The handler returns: the response is sent and the worker is free again
Respond(w, r, outcome, reason) ==
    /\ req' = [req EXCEPT ![w] = IdleReq]
    /\ last' = Response(r, outcome, reason)

\* The handler goes on with its next statement
Continue(w, r) ==
    /\ req' = [req EXCEPT ![w] = r]
    /\ last' = last

Active(w) == req[w].pc # "idle"

\* History: the stock levels and coupon counters a handler starts from
Levels ==
    [products |-> [p \in DOMAIN products |-> products[p].stock_quantity],
     variants |-> [v \in DOMAIN variants |-> variants[v].stock_quantity],
     times_used |-> [c \in DOMAIN coupons |-> coupons[c].times_used]]

\* The workers that handle requests
Running == IF mode \in {"parallel", "review"} THEN Workers ELSE {"w1"}

\* The requests explored: those passing their checks are bounded, and where
\* workers run side by side a request rejected by its first checks, which
\* reads the committed rows in one step and writes nothing, is left out
Limit ==
    CASE mode = "serial" -> SeqLoad
      [] mode = "parallel" -> ConcLoad
      [] mode = "catalog" -> CatLoad
      [] mode = "access" -> AccLoad
      [] mode = "review" -> RevLoad
      [] OTHER -> ShopLoad

Explored(w) ==
    /\ accepted' <= Limit
    /\ mode = "parallel" => Active(w)'

\* Whether a request of that weight can still be explored
Explorable(weight) == mode = "parallel" => accepted + weight <= Limit

\* Worker w is at statement pc and no response is on its way
At(w, pc) ==
    /\ w \in Running
    /\ last = NoResponse
    /\ req[w].pc = pc

----------------------------------------------------------------------------
\* orders/utils.py

CodThreshold == 50000
CodFee == 5000

\* What calculate_order_totals raises for one cart line ("ok" when nothing).
\* The message for a variant short of stock uses size_display and color_display,
\* which are assigned only where the variant is not found: building it raises
\* UnboundLocalError instead of the ValueError.
LineError(line) ==
    LET p == products[line.product_id]
    IN  IF ~p.is_active THEN "product_not_found"
        ELSE IF line.size # NoSize
        THEN LET v == GetVariant(variants, line.product_id, line.size)
             IN  IF v = Null THEN "variant_not_found"
                 ELSE IF variants[v].stock_quantity < line.quantity
                      THEN "unbound_local"
                 ELSE "ok"
        ELSE IF p.stock_quantity < line.quantity THEN "insufficient_stock"
        ELSE "ok"

\* One entry of items_breakdown: the snapshot of the product taken for a line
BreakdownItem(line) ==
    LET p == products[line.product_id]
    IN  [product_id |-> line.product_id,
         variant_id |-> IF line.size # NoSize
                        THEN GetVariant(variants, line.product_id, line.size)
                        ELSE Null,
         base_price |-> p.base_price,
         display_price |-> p.display_price,
         commission_rate |-> p.commission_rate,
         quantity |-> line.quantity,
         size |-> line.size,
         item_subtotal |-> p.display_price * line.quantity,
         commission_amount |-> (p.display_price - p.base_price) * line.quantity,
         seller_amount |-> p.base_price * line.quantity]

\* validate_cart_items followed by calculate_order_totals: the first line in
\* cart order that fails decides the error
calculate_order_totals(cart) ==
    LET bad == {i \in DOMAIN cart : LineError(cart[i]) # "ok"}
        items == [i \in DOMAIN cart |-> BreakdownItem(cart[i])]
        subtotal == SeqSum([i \in DOMAIN cart |-> items[i].item_subtotal])
        cod_fee == IF subtotal < CodThreshold THEN CodFee ELSE 0
    IN  IF cart = <<>> THEN [BlankTotals EXCEPT !.error = "empty_cart"]
        ELSE IF bad # {} THEN [BlankTotals EXCEPT !.error = LineError(cart[MinOf(bad)])]
        ELSE [error |-> "ok",
              items |-> items,
              subtotal |-> subtotal,
              cod_fee |-> cod_fee,
              total_amount |-> subtotal + cod_fee,
              commission_amount |-> SeqSum([i \in DOMAIN cart |-> items[i].commission_amount]),
              seller_payout_amount |-> SeqSum([i \in DOMAIN cart |-> items[i].seller_amount])]

----------------------------------------------------------------------------
\* The writes of an open transaction, as its own reads see them

RECURSIVE ApplyProducts(_, _)
ApplyProducts(P, log) ==
    IF log = <<>> THEN P
    ELSE LET wr == Head(log)
         IN  ApplyProducts(
                 CASE wr.kind = "product_row" -> [P EXCEPT ![wr.id] = wr.val]
                   [] wr.kind = "product_stock" -> [P EXCEPT ![wr.id].stock_quantity = wr.val]
                   [] OTHER -> P,
                 Tail(log))

RECURSIVE ApplyVariants(_, _)
ApplyVariants(V, log) ==
    IF log = <<>> THEN V
    ELSE LET wr == Head(log)
         IN  ApplyVariants(
                 IF wr.kind = "variant_row" THEN [V EXCEPT ![wr.id] = wr.val] ELSE V,
                 Tail(log))

RECURSIVE ApplyCoupons(_, _)
ApplyCoupons(C, log) ==
    IF log = <<>> THEN C
    ELSE LET wr == Head(log)
         IN  ApplyCoupons(
                 IF wr.kind = "coupon_row" THEN [C EXCEPT ![wr.id] = wr.val] ELSE C,
                 Tail(log))

\* variant.save(): the row, then product.update_total_stock()
VariantSaveWrites(V, vid, row) ==
    LET V2 == [V EXCEPT ![vid] = row]
    IN  <<[kind |-> "variant_row", id |-> vid, val |-> row],
          [kind |-> "product_stock", id |-> row.product, val |-> TotalStock(V2, row.product)]>>

\* product.save(): the whole row
ProductSaveWrites(pid, row) ==
    <<[kind |-> "product_row", id |-> pid, val |-> ProductSave(row)]>>

\* The statements that change the stock of one order item by delta, or <<>>
\* when the new value does not fit the column
StockWrites(P, V, it, delta) ==
    IF it.variant_id # Null
    THEN LET n == V[it.variant_id].stock_quantity + delta
         IN  IF FitsPositiveIntegerField(n)
             THEN VariantSaveWrites(V, it.variant_id,
                                    [V[it.variant_id] EXCEPT !.stock_quantity = n])
             ELSE <<>>
    ELSE LET n == P[it.product_id].stock_quantity + delta
         IN  IF FitsPositiveIntegerField(n)
             THEN ProductSaveWrites(it.product_id,
                                    [P[it.product_id] EXCEPT !.stock_quantity = n])
             ELSE <<>>

----------------------------------------------------------------------------
\* create_order (orders/views.py)

\* Coupon.objects.get(code=code): the coupon looked up without its shop, a
\* deviation the same-shop property has to detect
FindCoupon_any_shop(code, shop) ==
    LET m == {c \in DOMAIN coupons : coupons[c].code = code}
    IN  IF m = {} THEN Null ELSE MinOf(m)

\* Coupon.objects.get(code=code, shop=shop), Null for DoesNotExist
FindCoupon(code, shop) ==
    LET m == {c \in DOMAIN coupons : coupons[c].code = code /\ coupons[c].shop = shop}
    IN  IF m = {} THEN Null ELSE MinOf(m)

\* Whether a cart item is in the coupon's scope
is_applicable(c, it) ==
    \/ c.applicability = "all"
    \/ c.applicability = "category" /\ c.category # Null
         /\ products[it.product_id].category = c.category
    \/ c.applicability = "product" /\ c.product # Null
         /\ it.product_id = c.product

applicable_total(c, items) ==
    SeqSum([i \in DOMAIN items |->
               IF is_applicable(c, items[i]) THEN items[i].item_subtotal ELSE 0])

\* The discount with a fixed amount taken as it is: a deviation the discount
\* property has to detect
coupon_discount_uncapped(c, items) ==
    LET at == applicable_total(c, items)
    IN  IF c.discount_type = "percentage"
        THEN at * c.discount_value
        ELSE 100 * c.discount_value

\* The discount, in fine units: not yet rounded to 2 places
coupon_discount(c, items) ==
    LET at == applicable_total(c, items)
    IN  IF c.discount_type = "percentage"
        THEN at * c.discount_value
        ELSE 100 * (IF c.discount_value > at THEN at ELSE c.discount_value)

\* The checks with min_order_value compared with the subtotal of the whole
\* cart: a deviation the minimum-order property has to detect
CheckCoupon_whole_cart(user, cart, code, items) ==
    LET shops == {products[cart[i].product_id].shop : i \in DOMAIN cart}
        shop == CHOOSE x \in shops : TRUE
        cid == FindCoupon(code, shop)
        none == [error |-> "ok", shop |-> shop, coupon |-> Null,
                 cobj |-> BlankCoupon, discount |-> 0]
    IN  IF Cardinality(shops) > 1 THEN [none EXCEPT !.error = "mixed_shop"]
        ELSE IF code = "" THEN none
        ELSE IF cid = Null THEN [none EXCEPT !.error = "invalid_coupon"]
        ELSE IF is_valid(coupons[cid]) # "valid"
             THEN [none EXCEPT !.error = is_valid(coupons[cid])]
        ELSE IF ~can_user_use(cid, user) THEN [none EXCEPT !.error = "already_used"]
        ELSE IF SeqSum([i \in DOMAIN items |-> items[i].item_subtotal])
                    < coupons[cid].min_order_value
             THEN [none EXCEPT !.error = "min_order_value"]
        ELSE [error |-> "ok", shop |-> shop, coupon |-> cid, cobj |-> coupons[cid],
              discount |-> coupon_discount(coupons[cid], items)]

\* Lines 55-122: the single-shop check and the coupon checks.  The result
\* carries the reason of the 400 response, or "ok" with the coupon object and
\* the discount.
CheckCoupon(user, cart, code, items) ==
    LET shops == {products[cart[i].product_id].shop : i \in DOMAIN cart}
        shop == CHOOSE x \in shops : TRUE
        cid == FindCoupon(code, shop)
        none == [error |-> "ok", shop |-> shop, coupon |-> Null,
                 cobj |-> BlankCoupon, discount |-> 0]
    IN  IF Cardinality(shops) > 1 THEN [none EXCEPT !.error = "mixed_shop"]
        ELSE IF code = "" THEN none
        ELSE IF cid = Null THEN [none EXCEPT !.error = "invalid_coupon"]
        ELSE IF is_valid(coupons[cid]) # "valid"
             THEN [none EXCEPT !.error = is_valid(coupons[cid])]
        ELSE IF ~can_user_use(cid, user) THEN [none EXCEPT !.error = "already_used"]
        ELSE IF applicable_total(coupons[cid], items) < coupons[cid].min_order_value
             THEN [none EXCEPT !.error = "min_order_value"]
        ELSE [error |-> "ok", shop |-> shop, coupon |-> cid, cobj |-> coupons[cid],
              discount |-> coupon_discount(coupons[cid], items)]

\* OrderItem.save() crediting the seller with the whole price: a deviation the
\* item arithmetic property has to detect
OrderItemSave_seller_gets_subtotal(it) ==
    [it EXCEPT !.item_subtotal = it.display_price * it.quantity,
               !.commission_amount = (it.display_price - it.base_price) * it.quantity,
               !.seller_amount = it.display_price * it.quantity]

\* OrderItem.save(): the derived amounts of an item row
OrderItemSave(it) ==
    [it EXCEPT !.item_subtotal = it.display_price * it.quantity,
               !.commission_amount = (it.display_price - it.base_price) * it.quantity,
               !.seller_amount = it.base_price * it.quantity]

\* The Order row written by Order.objects.create: the amounts are stored with
\* 2 decimal places
OrderRow(r) ==
    [customer |-> r.user,
     shop |-> r.shop,
     subtotal |-> r.totals.subtotal,
     cod_fee |-> r.totals.cod_fee,
     coupon |-> r.coupon,
     coupon_discount |-> Quantize(r.discount),
     total_amount |-> Quantize(100 * r.totals.total_amount - r.discount),
     commission_amount |-> r.totals.commission_amount,
     seller_payout_amount |-> r.totals.seller_payout_amount,
     order_status |-> "placed",
     payment_status |-> "cod",
     confirmed_at |-> FALSE, shipped_at |-> FALSE, delivered_at |-> FALSE,
     cancelled_at |-> FALSE,
     items |-> [i \in DOMAIN r.totals.items |-> OrderItemSave(r.totals.items[i])]]

\* Orders that exist or are being created
OrdersInProgress ==
    Len(orders) + Cardinality({w \in Workers : req[w].op = "create_order" /\ Active(w)})

\* Lines 41-122: validation, totals, shop and coupon checks on the committed
\* rows.  A ValueError is answered 400 (line 188), any other exception 500
\* (line 190).
create_order(w, user, cart, code) ==
    /\ At(w, "idle")
    /\ LET r == Received("create_order", user, cart, code, 0, "")
           totals == calculate_order_totals(cart)
           chk == CheckCoupon(user, cart, code, totals.items)
       IN  IF totals.error = "unbound_local" THEN Respond(w, r, "500", "")
           ELSE IF totals.error # "ok" THEN Respond(w, r, "400", totals.error)
           ELSE IF chk.error # "ok" THEN Respond(w, r, "400", chk.error)
           ELSE Continue(w, [r EXCEPT !.pc = "co_items", !.totals = totals,
                                      !.shop = chk.shop, !.coupon = chk.coupon,
                                      !.cobj = chk.cobj, !.discount = chk.discount,
                                      !.idx = 1])
    /\ accepted' = IF Active(w)' THEN accepted + 2 ELSE accepted
    /\ Explored(w)
    /\ UNCHANGED <<tables, now, rounding, restored, faults, mode, supply, allshops, reviews>>

\* Lines 147-170, one cart item: the OrderItem row and the stock debit, inside
\* the transaction.  A stock below zero is refused by the column and the
\* exception rolls the transaction back (line 190).
co_items(w) ==
    /\ At(w, "co_items")
    /\ LET r == req[w]
           it == r.totals.items[r.idx]
           wr == StockWrites(ApplyProducts(products, r.log), ApplyVariants(variants, r.log),
                             it, 0 - it.quantity)
       IN  IF wr = <<>> THEN Respond(w, r, "500", "")
           ELSE Continue(w, [r EXCEPT !.log = r.log \o wr,
                                      !.idx = r.idx + 1,
                                      !.pc = IF r.idx = Len(r.totals.items)
                                             THEN "co_commit" ELSE "co_items"])
    /\ UNCHANGED <<tables, now, rounding, restored, faults, accepted, mode, supply, allshops, reviews>>

\* The rows of the transaction as committed together
Commit(r) ==
    LET log == IF r.coupon = Null THEN r.log
               ELSE r.log \o <<[kind |-> "coupon_row", id |-> r.coupon,
                                val |-> [r.cobj EXCEPT !.times_used = r.cobj.times_used + 1]]>>
    IN  [products |-> ApplyProducts(products, log),
         variants |-> ApplyVariants(variants, log),
         coupons |-> ApplyCoupons(coupons, log),
         usages |-> IF r.coupon = Null THEN usages
                    ELSE Append(usages, [coupon |-> r.coupon, customer |-> r.user,
                                         order |-> Len(orders) + 1,
                                         discount_amount |-> Quantize(r.discount)]),
         orders |-> Append(orders, OrderRow(r))]

\* Lines 172-186: the CouponUsage row, coupon.times_used += 1 on the coupon
\* object read before the transaction, and the commit
co_commit(w) ==
    /\ At(w, "co_commit")
    /\ LET c == Commit(req[w])
       IN  /\ products' = c.products
           /\ variants' = c.variants
           /\ coupons' = c.coupons
           /\ usages' = c.usages
           /\ orders' = c.orders
    /\ Respond(w, req[w], "201", "")
    /\ UNCHANGED <<now, rounding, restored, faults, accepted, mode, supply, allshops, reviews>>

\* The handler without transaction.atomic: the writes made before the error
\* stay.  A deviation the all-or-nothing property has to detect.
co_error_keeps_writes(w) ==
    /\ \E pc \in {"co_items", "co_commit"} : At(w, pc)
    /\ faults < MaxFaults
    /\ faults' = faults + 1
    /\ products' = ApplyProducts(products, req[w].log)
    /\ variants' = ApplyVariants(variants, req[w].log)
    /\ Respond(w, [req[w] EXCEPT !.faulted = TRUE], "500", "")
    /\ UNCHANGED <<coupons, usages, orders, now, rounding, restored, accepted, mode, supply, allshops, reviews>>

\* Lines 190-191: a database error inside the transaction rolls it back
co_error(w) ==
    /\ \E pc \in {"co_items", "co_commit"} : At(w, pc)
    /\ faults < MaxFaults
    /\ faults' = faults + 1
    /\ Respond(w, [req[w] EXCEPT !.faulted = TRUE], "500", "")
    /\ UNCHANGED <<tables, now, rounding, restored, accepted, mode, supply, allshops, reviews>>

----------------------------------------------------------------------------
\* update_order_status (orders/views.py)

\* The table with shipped -> cancelled added: a deviation the transition
\* property has to detect
valid_transitions_shipped_cancel(current) ==
    CASE current = "placed" -> {"confirmed", "cancelled"}
      [] current = "confirmed" -> {"shipped", "cancelled"}
      [] current = "shipped" -> {"delivered", "cancelled"}
      [] OTHER -> {}

valid_transitions(current) ==
    CASE current = "placed" -> {"confirmed", "cancelled"}
      [] current = "confirmed" -> {"shipped", "cancelled"}
      [] current = "shipped" -> {"delivered"}
      [] OTHER -> {}

\* The new status on the order object, a delivery left unpaid
StampStatus_delivery_unpaid(o, new_status) ==
    [o EXCEPT !.order_status = new_status,
              !.confirmed_at = IF new_status = "confirmed" THEN TRUE ELSE @,
              !.shipped_at = IF new_status = "shipped" THEN TRUE ELSE @,
              !.delivered_at = IF new_status = "delivered" THEN TRUE ELSE @,
              !.cancelled_at = IF new_status = "cancelled" THEN TRUE ELSE @]

\* Lines 308-319: the new status and its timestamp on the order object
StampStatus(o, new_status) ==
    [o EXCEPT !.order_status = new_status,
              !.confirmed_at = IF new_status = "confirmed" THEN TRUE ELSE @,
              !.shipped_at = IF new_status = "shipped" THEN TRUE ELSE @,
              !.delivered_at = IF new_status = "delivered" THEN TRUE ELSE @,
              !.payment_status = IF new_status = "delivered" THEN "paid" ELSE @,
              !.cancelled_at = IF new_status = "cancelled" THEN TRUE ELSE @]

\* Lines 275-319: the seller check, the order of the seller's shop, the
\* transition table
update_order_status(w, user, target, new_status) ==
    /\ At(w, "idle")
    /\ LET r == Received("update_order_status", user, <<>>, "", target, new_status)
       IN  IF user_type(user) # "seller" THEN Respond(w, r, "403", "")
           ELSE IF target \notin DOMAIN orders \/ orders[target].shop # ShopOf(user)
                THEN Respond(w, r, "404", "")
           ELSE IF new_status \notin valid_transitions(orders[target].order_status)
                THEN Respond(w, r, "400", "invalid_transition")
           ELSE Continue(w, [r EXCEPT !.order = StampStatus(orders[target], new_status),
                                      !.before = Levels,
                                      !.idx = 1,
                                      !.pc = IF new_status = "cancelled"
                                             THEN "uos_items" ELSE "uos_save"])
    /\ accepted' = IF Active(w)' THEN accepted + 1 ELSE accepted
    /\ Explored(w)
    /\ UNCHANGED <<tables, now, rounding, restored, faults, mode, supply, allshops, reviews>>

\* The step of a cancellation after the stock of item idx was restored
AfterItem(r, items_pc, coupon_pc, save_pc) ==
    [r EXCEPT !.idx = r.idx + 1,
              !.pc = IF r.idx < Len(r.order.items) THEN items_pc
                     ELSE IF r.order.coupon # Null THEN coupon_pc
                     ELSE save_pc]

\* Lines 327-333 and 435-441, one item: the variant or product is read and
\* saved with the quantity added
RestoreItem(w, items_pc, coupon_pc, save_pc) ==
    /\ At(w, items_pc)
    /\ LET r == req[w]
           wr == StockWrites(products, variants, r.order.items[r.idx],
                             r.order.items[r.idx].quantity)
       IN  /\ products' = ApplyProducts(products, wr)
           /\ variants' = ApplyVariants(variants, wr)
           /\ restored' = [restored EXCEPT ![r.target].stock = @ + 1]
           /\ Continue(w, AfterItem(r, items_pc, coupon_pc, save_pc))
    /\ UNCHANGED <<coupons, usages, orders, now, rounding, faults, accepted, mode, supply, allshops, reviews>>

\* Lines 336-338 and 444-446: order.coupon is read and saved with
\* times_used - 1; the column refuses a negative value
RestoreCoupon(w, coupon_pc, save_pc) ==
    /\ At(w, coupon_pc)
    /\ LET r == req[w]
           c == coupons[r.order.coupon]
       IN  IF FitsPositiveIntegerField(c.times_used - 1)
           THEN /\ coupons' = [coupons EXCEPT ![r.order.coupon].times_used = @ - 1]
                /\ restored' = [restored EXCEPT ![r.target].coupon = @ + 1]
                /\ Continue(w, [r EXCEPT !.pc = save_pc])
           ELSE /\ Respond(w, r, "500", "")
                /\ UNCHANGED <<coupons, restored>>
    /\ UNCHANGED <<products, variants, usages, orders, now, rounding, faults, accepted, mode, supply, allshops, reviews>>

\* order.save() preceded by totals computed anew from the items, without the
\* coupon discount
SaveOrder_recalculated(w, save_pc) ==
    /\ At(w, save_pc)
    /\ orders' = [orders EXCEPT ![req[w].target] =
                     [req[w].order EXCEPT !.total_amount = @ + req[w].order.coupon_discount]]
    /\ Respond(w, req[w], "200", "")
    /\ UNCHANGED <<products, variants, coupons, usages, now, rounding, restored, faults, accepted, mode, supply, allshops, reviews>>

\* Lines 340 and 448: order.save() writes the order object read at the start
SaveOrder(w, save_pc) ==
    /\ At(w, save_pc)
    /\ orders' = [orders EXCEPT ![req[w].target] = req[w].order]
    /\ Respond(w, req[w], "200", "")
    /\ UNCHANGED <<products, variants, coupons, usages, now, rounding, restored, faults, accepted, mode, supply, allshops, reviews>>

uos_items(w) == RestoreItem(w, "uos_items", "uos_coupon", "uos_save")

uos_coupon(w) == RestoreCoupon(w, "uos_coupon", "uos_save")

uos_save(w) == SaveOrder(w, "uos_save")

\* A database error at a statement: update_order_status has no handler for it,
\* the statements already executed stay committed
uos_error(w) ==
    /\ \E pc \in {"uos_items", "uos_coupon", "uos_save"} : At(w, pc)
    /\ faults < MaxFaults
    /\ faults' = faults + 1
    /\ Respond(w, [req[w] EXCEPT !.faulted = TRUE], "500", "")
    /\ UNCHANGED <<tables, now, rounding, restored, accepted, mode, supply, allshops, reviews>>

----------------------------------------------------------------------------
\* cancel_customer_order (orders/views.py)

\* The handler looking the order up by its number alone: a deviation the
\* gating property has to detect
cancel_customer_order_any_owner(w, user, target) ==
    /\ At(w, "idle")
    /\ LET r == Received("cancel_customer_order", user, <<>>, "", target, "")
       IN  IF user_type(user) # "customer" THEN Respond(w, r, "403", "")
           ELSE IF target \notin DOMAIN orders THEN Respond(w, r, "404", "")
           ELSE IF orders[target].order_status \notin {"placed", "confirmed"}
                THEN Respond(w, r, "400", "invalid_transition")
           ELSE Continue(w, [r EXCEPT !.order = [orders[target] EXCEPT
                                                    !.order_status = "cancelled",
                                                    !.cancelled_at = TRUE],
                                      !.before = Levels,
                                      !.idx = 1,
                                      !.pc = "cco_items"])
    /\ accepted' = IF Active(w)' THEN accepted + 1 ELSE accepted
    /\ Explored(w)
    /\ UNCHANGED <<tables, now, rounding, restored, faults, mode, supply, allshops, reviews>>

\* The handler without its status check on a cancelled order: a deviation the
\* cancel-once property has to detect
cancel_customer_order_unguarded(w, user, target) ==
    /\ At(w, "idle")
    /\ LET r == Received("cancel_customer_order", user, <<>>, "", target, "")
       IN  IF user_type(user) # "customer" THEN Respond(w, r, "403", "")
           ELSE IF target \notin DOMAIN orders \/ orders[target].customer # user
                THEN Respond(w, r, "404", "")
           ELSE IF orders[target].order_status \notin {"placed", "confirmed", "cancelled"}
                THEN Respond(w, r, "400", "invalid_transition")
           ELSE Continue(w, [r EXCEPT !.order = [orders[target] EXCEPT
                                                    !.order_status = "cancelled",
                                                    !.cancelled_at = TRUE],
                                      !.before = Levels,
                                      !.idx = 1,
                                      !.pc = "cco_items"])
    /\ accepted' = IF Active(w)' THEN accepted + 1 ELSE accepted
    /\ Explored(w)
    /\ UNCHANGED <<tables, now, rounding, restored, faults, mode, supply, allshops, reviews>>

\* Lines 412-432: the customer check, the caller's own order, the status check
cancel_customer_order(w, user, target) ==
    /\ At(w, "idle")
    /\ LET r == Received("cancel_customer_order", user, <<>>, "", target, "")
       IN  IF user_type(user) # "customer" THEN Respond(w, r, "403", "")
           ELSE IF target \notin DOMAIN orders \/ orders[target].customer # user
                THEN Respond(w, r, "404", "")
           ELSE IF orders[target].order_status \notin {"placed", "confirmed"}
                THEN Respond(w, r, "400", "invalid_transition")
           ELSE Continue(w, [r EXCEPT !.order = [orders[target] EXCEPT
                                                    !.order_status = "cancelled",
                                                    !.cancelled_at = TRUE],
                                      !.before = Levels,
                                      !.idx = 1,
                                      !.pc = "cco_items"])
    /\ accepted' = IF Active(w)' THEN accepted + 1 ELSE accepted
    /\ Explored(w)
    /\ UNCHANGED <<tables, now, rounding, restored, faults, mode, supply, allshops, reviews>>

cco_items(w) == RestoreItem(w, "cco_items", "cco_coupon", "cco_save")

cco_coupon(w) == RestoreCoupon(w, "cco_coupon", "cco_save")

cco_save(w) == SaveOrder(w, "cco_save")

\* Lines 457-458: any exception is answered 500; the statements already
\* executed stay committed
cco_error(w) ==
    /\ \E pc \in {"cco_items", "cco_coupon", "cco_save"} : At(w, pc)
    /\ faults < MaxFaults
    /\ faults' = faults + 1
    /\ Respond(w, [req[w] EXCEPT !.faulted = TRUE], "500", "")
    /\ UNCHANGED <<tables, now, rounding, restored, accepted, mode, supply, allshops, reviews>>

----------------------------------------------------------------------------
\* get_order_detail (orders/views.py)

\* A customer finds an order of any customer, a seller one of any shop
get_order_detail_any_owner(w, user, target) ==
    /\ At(w, "idle")
    /\ LET r == Received("get_order_detail", user, <<>>, "", target, "")
       IN  IF user_type(user) \notin {"customer", "seller"} THEN Respond(w, r, "403", "")
           ELSE IF target \notin DOMAIN orders THEN Respond(w, r, "404", "")
           ELSE Respond(w, r, "200", "")
    /\ UNCHANGED <<tables, now, rounding, restored, faults, accepted, mode, supply, allshops, reviews>>

\* Lines 223-234: a customer finds an order of their own, a seller an order of
\* the shop they own; any other order_number is answered 404
get_order_detail(w, user, target) ==
    /\ At(w, "idle")
    /\ LET r == Received("get_order_detail", user, <<>>, "", target, "")
           found == /\ target \in DOMAIN orders
                    /\ IF user_type(user) = "customer"
                       THEN orders[target].customer = user
                       ELSE orders[target].shop = ShopOf(user)
       IN  IF user_type(user) \notin {"customer", "seller"} THEN Respond(w, r, "403", "")
           ELSE IF ~found THEN Respond(w, r, "404", "")
           ELSE Respond(w, r, "200", "")
    /\ UNCHANGED <<tables, now, rounding, restored, faults, accepted, mode, supply, allshops, reviews>>

----------------------------------------------------------------------------
\* update_coupon (coupons/views.py, coupons/serializers.py)

\* What a seller sends to update_coupon: discount_value, Null when not sent,
\* and whether is_active = false is sent
CouponUpdates == [discount_value : {Null, 0, 20}, deactivate : BOOLEAN]

\* Lines 111-133 with CouponUpdateSerializer: the seller's own coupon, the
\* fields sent validated (discount_value above 0, a percentage at most 100)
\* and set on the row
update_coupon(w, user, cid, data) ==
    /\ At(w, "idle")
    /\ LET r == Received("update_coupon", user, <<>>, "", cid, "")
           c == coupons[cid]
           value == IF data.discount_value # Null THEN data.discount_value
                    ELSE c.discount_value
       IN  IF user_type(user) # "seller" THEN Respond(w, r, "403", "") /\ UNCHANGED <<coupons, accepted>>
           ELSE IF cid \notin DOMAIN coupons \/ coupons[cid].shop # ShopOf(user)
                THEN Respond(w, r, "404", "") /\ UNCHANGED <<coupons, accepted>>
           ELSE IF \/ data.discount_value # Null /\ data.discount_value <= 0
                   \/ c.discount_type = "percentage" /\ value > 100
                THEN Respond(w, r, "400", "discount_value") /\ UNCHANGED <<coupons, accepted>>
           ELSE /\ coupons' = [coupons EXCEPT
                                 ![cid].discount_value = value,
                                 ![cid].is_active = IF data.deactivate THEN FALSE ELSE @]
                /\ accepted' = accepted + 1
                /\ accepted' <= Limit
                /\ Respond(w, r, "200", "")
    /\ UNCHANGED <<products, variants, usages, orders, now, rounding, restored, faults, mode,
                   supply, allshops, reviews>>

----------------------------------------------------------------------------
\* create_review (reviews/views.py, reviews/models.py)

\* The ratings sent; ReviewCreateSerializer.validate_rating accepts 1 to 5
Ratings == {0, 2, 5}

\* Review.objects.filter(product=, order=, customer=).exists()
ReviewExists(R, pid, oid, user) ==
    \E i \in DOMAIN R : R[i].product = pid /\ R[i].order = oid /\ R[i].customer = user

\* Review.update_product_rating, lines 36-41: Count('id') and Avg('rating')
\* over the reviews of the product; the mean is stored in a
\* DecimalField(max_digits=3, decimal_places=2) and counted here in 1/100,
\* rounded half to even
RatingStats(R, pid) ==
    LET S == {i \in DOMAIN R : R[i].product = pid}
        n == Cardinality(S)
        total == SeqSum([i \in DOMAIN R |-> IF i \in S THEN 100 * R[i].rating ELSE 0])
        q == IF n = 0 THEN 0 ELSE total \div n
        rem == IF n = 0 THEN 0 ELSE total % n
    IN  [review_count |-> n,
         average_rating |-> IF 2 * rem > n \/ (2 * rem = n /\ q % 2 = 1) THEN q + 1 ELSE q]

\* create_review without the check that the order is delivered
create_review_any_status(w, user, pid, oid, rating) ==
    /\ At(w, "idle")
    /\ LET r == [Received("create_review", user, <<>>, "", oid, "") EXCEPT
                    !.product = pid, !.rating = rating]
       IN  IF pid \notin DOMAIN products \/ oid \notin DOMAIN orders \/ rating \notin 1..5
           THEN Respond(w, r, "400", "invalid")
           ELSE IF orders[oid].customer # user THEN Respond(w, r, "403", "")
           ELSE IF ~\E i \in DOMAIN orders[oid].items : orders[oid].items[i].product_id = pid
                THEN Respond(w, r, "400", "not_in_order")
           ELSE IF ReviewExists(reviews, pid, oid, user) THEN Respond(w, r, "400", "duplicate")
           ELSE Continue(w, [r EXCEPT !.pc = "cr_insert", !.pobj = products[pid]])
    /\ accepted' = IF Active(w)' THEN accepted + 1 ELSE accepted
    /\ Explored(w)
    /\ UNCHANGED <<tables, now, rounding, restored, faults, mode, supply, allshops, reviews>>

\* views.py 17-50: the serializer validates the rating and loads the Product
\* and the Order named; then the checks on the order, its items and the
\* reviews.  The Product object loaded here is the one saved at the end.
create_review(w, user, pid, oid, rating) ==
    /\ At(w, "idle")
    /\ LET r == [Received("create_review", user, <<>>, "", oid, "") EXCEPT
                    !.product = pid, !.rating = rating]
       IN  IF pid \notin DOMAIN products \/ oid \notin DOMAIN orders \/ rating \notin 1..5
           THEN Respond(w, r, "400", "invalid")
           ELSE IF orders[oid].customer # user THEN Respond(w, r, "403", "")
           ELSE IF orders[oid].order_status # "delivered"
                THEN Respond(w, r, "400", "not_delivered")
           ELSE IF ~\E i \in DOMAIN orders[oid].items : orders[oid].items[i].product_id = pid
                THEN Respond(w, r, "400", "not_in_order")
           ELSE IF ReviewExists(reviews, pid, oid, user) THEN Respond(w, r, "400", "duplicate")
           ELSE Continue(w, [r EXCEPT !.pc = "cr_insert", !.pobj = products[pid]])
    /\ accepted' = IF Active(w)' THEN accepted + 1 ELSE accepted
    /\ Explored(w)
    /\ UNCHANGED <<tables, now, rounding, restored, faults, mode, supply, allshops, reviews>>

\* views.py 53 with Review.save, line 29: the row is inserted; unique_together
\* (models.py 23) refuses a second row of (product, order, customer) and the
\* IntegrityError, caught nowhere, is answered 500
cr_insert(w) ==
    /\ At(w, "cr_insert")
    /\ LET r == req[w]
       IN  IF ReviewExists(reviews, r.product, r.target, r.user)
           THEN Respond(w, r, "500", "") /\ UNCHANGED reviews
           ELSE /\ reviews' = Append(reviews, [product |-> r.product, order |-> r.target,
                                               customer |-> r.user, rating |-> r.rating])
                /\ Continue(w, [r EXCEPT !.pc = "cr_save"])
    /\ UNCHANGED <<tables, now, rounding, restored, faults, accepted, mode, supply, allshops>>

\* Review.update_product_rating, models.py 33-42: the statistics are set on
\* the Product object loaded by the serializer and product.save() writes the
\* whole row of that object
cr_save(w) ==
    /\ At(w, "cr_save")
    /\ LET r == req[w]
           stats == RatingStats(reviews, r.product)
       IN  /\ products' = [products EXCEPT ![r.product] =
                              ProductSave([r.pobj EXCEPT
                                              !.average_rating = stats.average_rating,
                                              !.review_count = stats.review_count])]
           /\ Respond(w, r, "201", "")
    /\ UNCHANGED <<variants, coupons, usages, orders, now, rounding, restored, faults, accepted,
                   mode, supply, allshops, reviews>>

----------------------------------------------------------------------------
\* The catalogue (products/views.py, products/serializers.py, products/admin.py)

\* The sizes a seller gives to variants
VariantSizes == {"M", "L"}

\* The base prices a seller enters, 0 among them
BasePrices == {0, 5000}

\* The commission rates the admin gives a product, 0 among them
CommissionRates == {0, 20}

\* The variants of one request: none, or one with a size and a stock
VariantLists ==
    {<<>>} \cup {<<[size |-> s, stock_quantity |-> n]>> : s \in VariantSizes, n \in 1..MaxStock}

\* The fields of an update_product request, Null for a field that is not sent
ProductUpdates ==
    [base_price : {Null} \cup BasePrices,
     stock_quantity : {Null} \cup 0..MaxStock,
     new_variants : VariantLists]

\* The id the database gives the next row of a table
NextId(T) == Cardinality(DOMAIN T) + 1

\* ProductVariant.objects.create(...) and existing_variant.save(): the variant
\* row is written and Product.update_total_stock() sets the product's
\* stock_quantity
PutVariant(P, V, vid, row) ==
    LET V2 == IF vid \in DOMAIN V THEN [V EXCEPT ![vid] = row] ELSE V @@ (vid :> row)
    IN  [products |-> [P EXCEPT ![row.product].stock_quantity = TotalStock(V2, row.product)],
         variants |-> V2]

\* ProductUpdateSerializer._create_new_variants, one entry of variants_data: a
\* variant of the product with that size, active or not, gets the stock added;
\* otherwise an active variant is created
RECURSIVE create_new_variants(_, _, _, _)
create_new_variants(P, V, pid, vs) ==
    IF vs = <<>> THEN [products |-> P, variants |-> V]
    ELSE LET d == Head(vs)
             m == {v \in DOMAIN V : V[v].product = pid /\ V[v].size = d.size}
             t == IF m # {}
                  THEN PutVariant(P, V, MinOf(m),
                                  [V[MinOf(m)] EXCEPT !.stock_quantity = @ + d.stock_quantity])
                  ELSE PutVariant(P, V, NextId(V),
                                  [product |-> pid, size |-> d.size,
                                   stock_quantity |-> d.stock_quantity, is_active |-> TRUE])
         IN  create_new_variants(t.products, t.variants, pid, Tail(vs))

\* Lines 259-266 of the serializer: the product's stock_quantity is set to the
\* sum over all its variants and saved
AllVariantsStock(V, pid) == SumStock(V, {v \in DOMAIN V : V[v].product = pid})

\* ProductUpdateSerializer.update: the fields sent are set; with base_price
\* sent, display_price is computed from the shop's commission_rate; then
\* instance.save(); then the new variants
ProductUpdate(P, V, pid, data) ==
    LET p1 == [P[pid] EXCEPT
                  !.base_price = IF data.base_price # Null THEN data.base_price ELSE @,
                  !.stock_quantity = IF data.stock_quantity # Null
                                     THEN data.stock_quantity ELSE @]
        p2 == IF data.base_price # Null
              THEN [p1 EXCEPT !.display_price =
                       Quantize(p1.base_price * (100 + allshops[p1.shop].commission_rate))]
              ELSE p1
        P3 == [P EXCEPT ![pid] = ProductSave(p2)]
        t == create_new_variants(P3, V, pid, data.new_variants)
    IN  IF data.new_variants = <<>> THEN [products |-> P3, variants |-> V]
        ELSE [products |-> [t.products EXCEPT ![pid].stock_quantity =
                                                  AllVariantsStock(t.variants, pid)],
              variants |-> t.variants]

\* A handler that answers in one step, leaving the rows as they are
Reject(w, r, outcome, reason) ==
    /\ Respond(w, r, outcome, reason)
    /\ UNCHANGED <<products, variants, accepted>>

\* A handler that answers in one step after writing product and variant rows
Done(w, r, outcome, t) ==
    /\ products' = t.products
    /\ variants' = t.variants
    /\ accepted' = accepted + 1
    /\ accepted' <= Limit
    /\ Respond(w, r, outcome, "")

\* create_product (views.py 112-156) with ProductCreateSerializer.create: the
\* product takes the shop's commission_rate; display_price has no default, so a
\* row that save() leaves without one is refused by the column
create_product(w, user, base_price, stock_quantity, vs) ==
    /\ At(w, "idle")
    /\ LET r == Received("create_product", user, <<>>, "", NextId(products), "")
           row == ProductSave([shop |-> ShopOf(user), category |-> 1,
                               base_price |-> base_price,
                               commission_rate |-> allshops[ShopOf(user)].commission_rate,
                               display_price |-> Null,
                               stock_quantity |-> stock_quantity, is_active |-> TRUE,
                                average_rating |-> 0, review_count |-> 0])
           P1 == products @@ (NextId(products) :> row)
       IN  IF user_type(user) # "seller" THEN Reject(w, r, "403", "")
           ELSE IF ~allshops[ShopOf(user)].is_approved THEN Reject(w, r, "403", "")
           ELSE IF base_price <= 0 THEN Reject(w, r, "400", "base_price")
           ELSE IF row.display_price = Null THEN Reject(w, r, "500", "")
           ELSE Done(w, r, "201",
                     create_new_variants(P1, variants, NextId(products), vs))
    /\ UNCHANGED <<coupons, usages, orders, now, rounding, restored, faults, mode, supply,
                   allshops, reviews>>

\* update_product (views.py 214-256)
update_product(w, user, pid, data) ==
    /\ At(w, "idle")
    /\ LET r == Received("update_product", user, <<>>, "", pid, "")
       IN  IF user_type(user) # "seller" THEN Reject(w, r, "403", "")
           ELSE IF pid \notin DOMAIN products \/ products[pid].shop # ShopOf(user)
                THEN Reject(w, r, "404", "")
           ELSE Done(w, r, "200", ProductUpdate(products, variants, pid, data))
    /\ UNCHANGED <<coupons, usages, orders, now, rounding, restored, faults, mode, supply,
                   allshops, reviews>>

\* delete_product (views.py 258-280): is_active = False and product.save()
delete_product(w, user, pid) ==
    /\ At(w, "idle")
    /\ LET r == Received("delete_product", user, <<>>, "", pid, "")
       IN  IF user_type(user) # "seller" THEN Reject(w, r, "403", "")
           ELSE IF pid \notin DOMAIN products \/ products[pid].shop # ShopOf(user)
                THEN Reject(w, r, "404", "")
           ELSE Done(w, r, "200",
                     [products |-> [products EXCEPT ![pid] =
                                       ProductSave([products[pid] EXCEPT !.is_active = FALSE])],
                      variants |-> variants])
    /\ UNCHANGED <<coupons, usages, orders, now, rounding, restored, faults, mode, supply,
                   allshops, reviews>>

\* update_variant_stock (views.py 301-323); stock_quantity Null stands for a
\* missing or negative value
update_variant_stock(w, user, vid, stock_quantity) ==
    /\ At(w, "idle")
    /\ LET r == Received("update_variant_stock", user, <<>>, "", vid, "")
       IN  IF user_type(user) # "seller" THEN Reject(w, r, "403", "")
           ELSE IF vid \notin DOMAIN variants
                     \/ products[variants[vid].product].shop # ShopOf(user)
                THEN Reject(w, r, "404", "")
           ELSE IF stock_quantity = Null THEN Reject(w, r, "400", "stock_quantity")
           ELSE Done(w, r, "200",
                     PutVariant(products, variants, vid,
                                [variants[vid] EXCEPT !.stock_quantity = stock_quantity]))
    /\ UNCHANGED <<coupons, usages, orders, now, rounding, restored, faults, mode, supply,
                   allshops, reviews>>

\* The admin saves a variant with is_active changed (ProductVariantInline)
admin_save_variant(vid, is_active) ==
    /\ last = NoResponse
    /\ vid \in DOMAIN variants
    /\ variants[vid].is_active # is_active
    /\ LET t == PutVariant(products, variants, vid, [variants[vid] EXCEPT !.is_active = is_active])
       IN  products' = t.products /\ variants' = t.variants
    /\ accepted' = accepted + 1
    /\ accepted' <= Limit
    /\ UNCHANGED <<coupons, usages, orders, now, rounding, req, last, restored, faults, mode,
                   supply, allshops, reviews>>

\* The admin saves a product with another commission_rate (ProductAdmin)
admin_save_product(pid, rate) ==
    /\ last = NoResponse
    /\ pid \in DOMAIN products
    /\ products[pid].commission_rate # rate
    /\ products' = [products EXCEPT ![pid] =
                       ProductSave([products[pid] EXCEPT !.commission_rate = rate])]
    /\ accepted' = accepted + 1
    /\ accepted' <= Limit
    /\ UNCHANGED <<variants, coupons, usages, orders, now, rounding, req, last, restored,
                   faults, mode, supply, allshops, reviews>>

----------------------------------------------------------------------------
\* The checkout of a cart with a coupon (orders/views.py, coupons/views.py,
\* coupons/serializers.py, shops/admin.py)

\* The coupons a seller can create (CouponCreateSerializer: discount_value > 0,
\* a percentage at most 100, the category or product given when the scope
\* asks for one, valid_from < valid_to), in each of their scopes, with and
\* without a minimum order value, for either shop
DiscountConfigs ==
    {[BlankCoupon EXCEPT !.shop = sh, !.code = "SAVE", !.discount_type = d[1],
        !.discount_value = d[2], !.applicability = a[1], !.category = a[2],
        !.product = a[3], !.min_order_value = mn, !.max_uses_per_customer = 1,
        !.valid_to = 2, !.is_active = TRUE] :
        sh \in ShopIds,
        d \in {<<"percentage", 50>>, <<"percentage", 100>>, <<"fixed", 5000>>,
               <<"fixed", 60000>>},
        a \in {<<"all", Null, Null>>, <<"category", 2, Null>>, <<"product", Null, 1>>},
        mn \in {0, 20000}}

\* The states a coupon of shop 1 can be in: switched off or on, before, at the
\* ends of, or after its validity period, max_uses unset, 0 or more, used or
\* not
ValidityConfigs ==
    {[BlankCoupon EXCEPT !.shop = 1, !.code = "SAVE", !.discount_type = "percentage",
        !.discount_value = 50, !.applicability = "all", !.max_uses = mx,
        !.max_uses_per_customer = 2, !.valid_from = p[1], !.valid_to = p[2],
        !.is_active = a, !.times_used = u] :
        a \in BOOLEAN,
        p \in {<<0, 1>>, <<1, 2>>, <<2, 3>>, <<0, 0>>},
        mx \in {Null, 0, 1, 2},
        u \in 0..1}

\* validate_coupon (coupons/views.py 160-270).  The client sends the price of
\* each item; it sends the listed display_price.
validate_coupon(w, user, cart, code) ==
    /\ At(w, "idle")
    /\ LET r == Received("validate_coupon", user, cart, code, 0, "")
           m == {c \in DOMAIN coupons : coupons[c].code = code}
           cid == MinOf(m)
           items == [i \in DOMAIN cart |->
                        [product_id |-> cart[i].product_id,
                         item_subtotal |-> products[cart[i].product_id].display_price
                                               * cart[i].quantity]]
       IN  IF code = "" THEN Respond(w, r, "400", "code")
           ELSE IF m = {} THEN Respond(w, r, "404", "")
           ELSE IF is_valid(coupons[cid]) # "valid"
                THEN Respond(w, r, "400", is_valid(coupons[cid]))
           ELSE IF ~can_user_use(cid, user) THEN Respond(w, r, "400", "already_used")
           ELSE IF \E i \in DOMAIN cart :
                       products[cart[i].product_id].shop # coupons[cid].shop
                THEN Respond(w, r, "400", "other_shop")
           ELSE IF applicable_total(coupons[cid], items) < coupons[cid].min_order_value
                THEN Respond(w, r, "400", "min_order_value")
           ELSE Respond(w, r, "200", "")
    /\ UNCHANGED <<tables, now, rounding, restored, faults, accepted, mode, supply, allshops, reviews>>

\* The admin action reject_shops (shops/admin.py 63-65) on one shop
reject_shops(shop) ==
    /\ last = NoResponse
    /\ allshops[shop].is_approved
    /\ allshops' = [allshops EXCEPT ![shop].is_approved = FALSE]
    /\ accepted' = accepted + 1
    /\ accepted' <= Limit
    /\ UNCHANGED <<tables, now, rounding, req, last, restored, faults, mode, supply, reviews>>

----------------------------------------------------------------------------
\* The system

Start(m) ==
    /\ \E s \in {1, 2} :
        /\ products =
             (1 :> ProductSave([shop |-> 1, category |-> 1, base_price |-> 9090,
                                commission_rate |-> 10, display_price |-> 0,
                                stock_quantity |-> 1, is_active |-> TRUE,
                                average_rating |-> 0, review_count |-> 0])
              @@
              2 :> ProductSave([shop |-> 1, category |-> 2, base_price |-> 40000,
                                commission_rate |-> 25, display_price |-> 0,
                                stock_quantity |-> s, is_active |-> TRUE,
                                average_rating |-> 0, review_count |-> 0]))
        /\ variants = (1 :> [product |-> 2, size |-> "M", stock_quantity |-> s,
                             is_active |-> TRUE])
    /\ \E c \in CouponConfigs : coupons = (1 :> c)
    /\ usages = <<>>
    /\ orders = <<>>
    /\ now = 1
    /\ rounding \in {"half_even", "half_up"}
    /\ req = [w \in Workers |-> IdleReq]
    /\ last = NoResponse
    /\ restored = [o \in 1..MaxOrders |-> [stock |-> 0, coupon |-> 0]]
    /\ faults = 0
    /\ accepted = 0
    /\ mode = m
    /\ supply = Levels
    /\ allshops = (1 :> [commission_rate |-> 15, is_approved |-> TRUE])
    /\ reviews = <<>>

\* Worker w receives a request: any caller, any input
create_order_request(w) ==
    /\ At(w, "idle")
    /\ Explorable(2)
    /\ OrdersInProgress < MaxOrders
    /\ \E user \in Customers, cart \in Carts, code \in Codes :
          create_order(w, user, cart, code)

update_order_status_request(w) ==
    /\ At(w, "idle")
    /\ Explorable(1)
    /\ \E user \in Users, target \in 1..MaxOrders, new_status \in Statuses :
          update_order_status(w, user, target, new_status)

cancel_customer_order_request(w) ==
    /\ At(w, "idle")
    /\ Explorable(1)
    /\ \E user \in Users, target \in 1..MaxOrders :
          cancel_customer_order(w, user, target)

\* The response reaches the client
Deliver ==
    /\ last # NoResponse
    /\ last' = NoResponse
    /\ UNCHANGED <<tables, now, rounding, req, restored, faults, accepted, mode, supply, allshops, reviews>>

Next ==
    \/ \E w \in Workers :
        \/ create_order_request(w)
        \/ co_items(w)
        \/ co_commit(w)
        \/ co_error(w)
        \/ update_order_status_request(w)
        \/ uos_items(w)
        \/ uos_coupon(w)
        \/ uos_save(w)
        \/ uos_error(w)
        \/ cancel_customer_order_request(w)
        \/ cco_items(w)
        \/ cco_coupon(w)
        \/ cco_save(w)
        \/ cco_error(w)
    \/ Deliver

\* Requests handled by workers running side by side
Init == Start("parallel")

Spec == Init /\ [][Next]_vars

\* Requests handled one after the other
SeqInit == Start("serial")

SeqSpec == SeqInit /\ [][Next]_vars

create_product_request(w) ==
    /\ At(w, "idle")
    /\ Cardinality(DOMAIN products) < MaxProducts
    /\ Cardinality(DOMAIN variants) < MaxVariants
    /\ \E user \in Users, base_price \in BasePrices, stock_quantity \in 0..MaxStock,
          vs \in VariantLists :
          create_product(w, user, base_price, stock_quantity, vs)

update_product_request(w) ==
    /\ At(w, "idle")
    /\ Cardinality(DOMAIN variants) < MaxVariants
    /\ \E user \in Users, pid \in 1..MaxProducts, data \in ProductUpdates :
          update_product(w, user, pid, data)

delete_product_request(w) ==
    /\ At(w, "idle")
    /\ \E user \in Users, pid \in 1..MaxProducts : delete_product(w, user, pid)

update_variant_stock_request(w) ==
    /\ At(w, "idle")
    /\ \E user \in Users, vid \in 1..MaxVariants, stock_quantity \in {Null} \cup 0..MaxStock :
          update_variant_stock(w, user, vid, stock_quantity)

admin_save_variant_request == \E vid \in 1..MaxVariants, a \in BOOLEAN : admin_save_variant(vid, a)

admin_save_product_request ==
    \E pid \in 1..MaxProducts, rate \in CommissionRates : admin_save_product(pid, rate)

\* The catalogue edited by the seller and the admin, one request after the other
CatalogNext ==
    \/ \E w \in Workers :
        \/ create_product_request(w)
        \/ update_product_request(w)
        \/ delete_product_request(w)
        \/ update_variant_stock_request(w)
    \/ admin_save_variant_request
    \/ admin_save_product_request
    \/ Deliver

CatalogInit == Start("catalog")

CatalogSpec == CatalogInit /\ [][CatalogNext]_vars

validate_coupon_request(w) ==
    /\ At(w, "idle")
    /\ \E user \in Customers, cart \in Carts, code \in Codes :
          validate_coupon(w, user, cart, code)

reject_shops_request == \E shop \in ShopIds : reject_shops(shop)

\* Two shops, both approved; product 2 is of either shop; one coupon
CheckoutInit ==
    /\ \E sh \in ShopIds :
        products =
             (1 :> ProductSave([shop |-> 1, category |-> 1, base_price |-> 9090,
                                commission_rate |-> 10, display_price |-> 0,
                                stock_quantity |-> 1, is_active |-> TRUE,
                                average_rating |-> 0, review_count |-> 0])
              @@
              2 :> ProductSave([shop |-> sh, category |-> 2, base_price |-> 40000,
                                commission_rate |-> 25, display_price |-> 0,
                                stock_quantity |-> 1, is_active |-> TRUE,
                                average_rating |-> 0, review_count |-> 0]))
    /\ variants = (1 :> [product |-> 2, size |-> "M", stock_quantity |-> 1,
                         is_active |-> TRUE])
    /\ \E c \in DiscountConfigs \cup ValidityConfigs : coupons = (1 :> c)
    /\ usages = <<>>
    /\ orders = <<>>
    /\ now = 1
    /\ rounding \in {"half_even", "half_up"}
    /\ req = [w \in Workers |-> IdleReq]
    /\ last = NoResponse
    /\ restored = [o \in 1..MaxOrders |-> [stock |-> 0, coupon |-> 0]]
    /\ faults = 0
    /\ accepted = 0
    /\ mode = "checkout"
    /\ supply = Levels
    /\ allshops = [sh \in ShopIds |-> [commission_rate |-> 15, is_approved |-> TRUE]]
    /\ reviews = <<>>

\* Carts validated and checked out one request after the other, while the
\* admin rejects shops
CheckoutNext ==
    \/ \E w \in Workers :
        \/ create_order_request(w)
        \/ co_items(w)
        \/ co_commit(w)
        \/ validate_coupon_request(w)
    \/ reject_shops_request
    \/ Deliver

CheckoutSpec == CheckoutInit /\ [][CheckoutNext]_vars

get_order_detail_request(w) ==
    /\ At(w, "idle")
    /\ \E user \in Users, target \in 1..MaxOrders :
          get_order_detail(w, user, target)

update_coupon_request(w) ==
    /\ At(w, "idle")
    /\ \E user \in Users, cid \in CouponIds, data \in CouponUpdates :
          update_coupon(w, user, cid, data)

\* Two shops; the seller owns shop 1 and product 2 is of either shop
AccessInit ==
    /\ \E sh \in ShopIds :
        products =
             (1 :> ProductSave([shop |-> 1, category |-> 1, base_price |-> 9090,
                                commission_rate |-> 10, display_price |-> 0,
                                stock_quantity |-> 1, is_active |-> TRUE,
                                average_rating |-> 0, review_count |-> 0])
              @@
              2 :> ProductSave([shop |-> sh, category |-> 2, base_price |-> 40000,
                                commission_rate |-> 25, display_price |-> 0,
                                stock_quantity |-> 1, is_active |-> TRUE,
                                average_rating |-> 0, review_count |-> 0]))
    /\ variants = (1 :> [product |-> 2, size |-> "M", stock_quantity |-> 1,
                         is_active |-> TRUE])
    /\ \E c \in CouponConfigs : coupons = (1 :> c)
    /\ usages = <<>>
    /\ orders = <<>>
    /\ now = 1
    /\ rounding \in {"half_even", "half_up"}
    /\ req = [w \in Workers |-> IdleReq]
    /\ last = NoResponse
    /\ restored = [o \in 1..MaxOrders |-> [stock |-> 0, coupon |-> 0]]
    /\ faults = 0
    /\ accepted = 0
    /\ mode = "access"
    /\ supply = Levels
    /\ allshops = [sh \in ShopIds |-> [commission_rate |-> 15, is_approved |-> TRUE]]
    /\ reviews = <<>>

\* Orders of two shops looked up, moved on and cancelled, and the seller's
\* products, variants and coupon edited, one request after the other
AccessNext ==
    \/ \E w \in Workers :
        \/ create_order_request(w)
        \/ co_items(w)
        \/ co_commit(w)
        \/ get_order_detail_request(w)
        \/ update_order_status_request(w)
        \/ uos_items(w)
        \/ uos_coupon(w)
        \/ uos_save(w)
        \/ cancel_customer_order_request(w)
        \/ cco_items(w)
        \/ cco_coupon(w)
        \/ cco_save(w)
        \/ update_product_request(w)
        \/ update_variant_stock_request(w)
        \/ update_coupon_request(w)
    \/ Deliver

AccessSpec == AccessInit /\ [][AccessNext]_vars

create_review_request(w) ==
    /\ At(w, "idle")
    /\ Explorable(1)
    /\ \E user \in Users, pid \in ProductIds, oid \in 1..MaxOrders, rating \in Ratings :
          create_review(w, user, pid, oid, rating)

\* The lines of the order that was delivered before the reviews start
SoldLines ==
    {[product_id |-> 1, quantity |-> 1, size |-> NoSize],
     [product_id |-> 2, quantity |-> 1, size |-> "M"]}

\* The products and the coupon of the shop with 1 unit of each product left,
\* after an order of customer c1 for one unit was placed, confirmed, shipped
\* and delivered
ReviewInit ==
    /\ products =
         (1 :> ProductSave([shop |-> 1, category |-> 1, base_price |-> 9090,
                            commission_rate |-> 10, display_price |-> 0,
                            stock_quantity |-> 1, is_active |-> TRUE,
                            average_rating |-> 0, review_count |-> 0])
          @@
          2 :> ProductSave([shop |-> 1, category |-> 2, base_price |-> 40000,
                            commission_rate |-> 25, display_price |-> 0,
                            stock_quantity |-> 1, is_active |-> TRUE,
                            average_rating |-> 0, review_count |-> 0]))
    /\ variants = (1 :> [product |-> 2, size |-> "M", stock_quantity |-> 1,
                         is_active |-> TRUE])
    /\ \E c \in CouponConfigs : coupons = (1 :> c)
    /\ usages = <<>>
    /\ \E line \in SoldLines :
          orders = <<StampStatus(
                        StampStatus(
                           StampStatus(
                              OrderRow([Received("create_order", "c1", <<line>>, "", 0, "")
                                           EXCEPT !.totals = calculate_order_totals(<<line>>),
                                                  !.shop = 1]),
                              "confirmed"),
                           "shipped"),
                        "delivered")>>
    /\ now = 1
    /\ rounding \in {"half_even", "half_up"}
    /\ req = [w \in Workers |-> IdleReq]
    /\ last = NoResponse
    /\ restored = [o \in 1..MaxOrders |-> [stock |-> 0, coupon |-> 0]]
    /\ faults = 0
    /\ accepted = 0
    /\ mode = "review"
    /\ supply = Levels
    /\ allshops = (1 :> [commission_rate |-> 15, is_approved |-> TRUE])
    /\ reviews = <<>>

\* Products reviewed while orders are placed and cancelled, side by side
ReviewNext ==
    \/ \E w \in Workers :
        \/ create_review_request(w)
        \/ cr_insert(w)
        \/ cr_save(w)
        \/ create_order_request(w)
        \/ co_items(w)
        \/ co_commit(w)
        \/ cancel_customer_order_request(w)
        \/ cco_items(w)
        \/ cco_coupon(w)
        \/ cco_save(w)
    \/ Deliver

ReviewSpec == ReviewInit /\ [][ReviewNext]_vars

----------------------------------------------------------------------------
\* Vocabulary of the properties

\* The status changes the specification allows
AllowedChanges ==
    {<<"placed", "confirmed">>, <<"placed", "cancelled">>,
     <<"confirmed", "shipped">>, <<"confirmed", "cancelled">>,
     <<"shipped", "delivered">>}

\* In this step worker w takes a request past its checks
Accepts(w) == req[w].pc = "idle" /\ req'[w].pc # "idle"

\* In this step a request is answered by its checks, before any statement
AnsweredAtOnce == last = NoResponse /\ last' # NoResponse /\ req' = req

\* The request or response r asks to cancel an order
CancelRequested(r) ==
    \/ r.op = "cancel_customer_order"
    \/ r.op = "update_order_status" /\ r.new_status = "cancelled"

\* What a cart line or an order item draws its stock from
LineTarget(line) ==
    IF line.size # NoSize
    THEN <<"variant", GetVariant(variants, line.product_id, line.size)>>
    ELSE <<"product", line.product_id>>

ItemTarget(it) ==
    IF it.variant_id # Null THEN <<"variant", it.variant_id>>
    ELSE <<"product", it.product_id>>

\* The stock of a target in the levels L
LevelOf(L, t) == IF t[1] = "variant" THEN L.variants[t[2]] ELSE L.products[t[2]]

\* The quantity a cart asks of target t, over all its lines
Requested(cart, t) ==
    SeqSum([i \in DOMAIN cart |->
               IF LineTarget(cart[i]) = t THEN cart[i].quantity ELSE 0])

\* The quantity the items of an order hold of target t
Held(items, t) ==
    SeqSum([i \in DOMAIN items |->
               IF ItemTarget(items[i]) = t THEN items[i].quantity ELSE 0])

\* The units of variant v in all orders
SoldUnits(v) ==
    SeqSum([o \in DOMAIN orders |-> Held(orders[o].items, <<"variant", v>>)])

\* No cancellation has credited anything yet
NothingRestored == \A o \in 1..MaxOrders : restored[o] = [stock |-> 0, coupon |-> 0]

\* A status request or cancellation of order o is being handled
InFlight(o) ==
    \E w \in Workers : Active(w) /\ req[w].op # "create_order" /\ req[w].target = o

\* What one cancellation of order o restores
RestoredOnce(o) ==
    [stock |-> Len(orders[o].items),
     coupon |-> IF orders[o].coupon # Null THEN 1 ELSE 0]

----------------------------------------------------------------------------
\* Properties

\* C1: requests handled one after the other: every change of an order's
\* order_status is one of placed->confirmed, placed->cancelled,
\* confirmed->shipped, confirmed->cancelled, shipped->delivered; a request for
\* any other change is never taken past the checks, and a request answered by
\* the checks is not answered 200 and leaves the orders as they are, so that
\* delivered and cancelled are terminal.
C1_Transitions ==
    [][/\ \A o \in DOMAIN orders :
            /\ o \in DOMAIN orders'
            /\ orders'[o].order_status # orders[o].order_status
                 => <<orders[o].order_status, orders'[o].order_status>> \in AllowedChanges
            /\ orders[o].order_status \in {"delivered", "cancelled"}
                 => orders'[o].order_status = orders[o].order_status
       /\ \A w \in Workers :
            /\ Accepts(w) /\ req'[w].op = "update_order_status"
                 => <<orders[req'[w].target].order_status, req'[w].new_status>>
                        \in AllowedChanges
            /\ Accepts(w) /\ req'[w].op = "cancel_customer_order"
                 => <<orders[req'[w].target].order_status, "cancelled">> \in AllowedChanges
       /\ AnsweredAtOnce /\ last'.op \in {"update_order_status", "cancel_customer_order"}
            => last'.outcome \in {"400", "403", "404"} /\ orders' = orders
      ]_vars

\* C1, its case: a request on a delivered order was rejected as an invalid
\* transition
C1_Reached ==
    /\ last.op \in {"update_order_status", "cancel_customer_order"}
    /\ last.outcome = "400"
    /\ last.reason = "invalid_transition"
    /\ last.target \in DOMAIN orders
    /\ orders[last.target].order_status = "delivered"

\* C2: two create_order requests side by side, each for the last unit of a
\* variant that started with 1 unit and with nothing cancelled: the units in
\* orders plus the units left are the 1 unit that was in stock, so that one
\* order exists and the stock is 0.
C2_LastUnit ==
    (faults = 0 /\ NothingRestored)
        => \A v \in DOMAIN variants :
               supply.variants[v] = 1
                   => variants[v].stock_quantity + SoldUnits(v) = supply.variants[v]

\* C3: a create_order request passes the stock check only if every product or
\* variant has in stock the whole quantity the cart asks of it over all its
\* lines, and no stock_quantity is ever negative.
C3_StockCovers ==
    /\ \A w \in Workers :
           (req[w].pc = "co_items" /\ req[w].idx = 1 /\ mode = "serial")
               => \A i \in DOMAIN req[w].cart :
                      Requested(req[w].cart, LineTarget(req[w].cart[i]))
                          <= LevelOf(Levels, LineTarget(req[w].cart[i]))
    /\ \A p \in DOMAIN products : products[p].stock_quantity >= 0
    /\ \A v \in DOMAIN variants : variants[v].stock_quantity >= 0

\* C4: requests handled one after the other: every step of a create_order
\* request, the answer of its checks as well as a step inside its transaction
\* or the error that ends it, leaves every row as it was, except the step that
\* answers 201, which adds exactly one order.
C4_AllOrNothing ==
    [][/\ (/\ last = NoResponse
           /\ \/ \E w \in Workers : req'[w] # req[w] /\ req'[w].op = "create_order"
              \/ last'.op = "create_order"
           /\ last'.outcome # "201")
          => tables' = tables
       /\ (last = NoResponse /\ last'.op = "create_order" /\ last'.outcome = "201")
          => Len(orders') = Len(orders) + 1
      ]_vars

\* C4, its case: a create_order was ended by a database error inside its
\* transaction and answered 500
C4_Reached ==
    /\ last.op = "create_order"
    /\ last.outcome = "500"
    /\ last.faulted
    /\ mode = "serial"

\* C5: requests handled one after the other: when a cancellation reaches its
\* order.save(), every item's variant (or product, for an item without a
\* variant) has the stock it had when the request started plus the quantity
\* the order's items hold of it, and the coupon of the order has its
\* times_used minus 1; and no request moves an order that was cancelled to
\* confirmed.
C5_CancelRestores ==
    /\ \A w \in Workers :
           (/\ mode = "serial"
            /\ req[w].pc \in {"uos_save", "cco_save"}
            /\ req[w].order.order_status = "cancelled")
               => /\ \A i \in DOMAIN req[w].order.items :
                         LET t == ItemTarget(req[w].order.items[i])
                         IN  LevelOf(Levels, t)
                                 = LevelOf(req[w].before, t) + Held(req[w].order.items, t)
                  /\ req[w].order.coupon # Null
                         => coupons[req[w].order.coupon].times_used
                                = req[w].before.times_used[req[w].order.coupon] - 1
    /\ (mode = "serial" /\ last.op = "update_order_status"
            /\ last.new_status = "confirmed" /\ last.outcome = "200")
           => ~orders[last.target].cancelled_at

C7_AtomicCancellation ==
    \A o \in DOMAIN orders :
        ~InFlight(o)
            => restored[o] = IF orders[o].order_status = "cancelled"
                             THEN RestoredOnce(o)
                             ELSE [stock |-> 0, coupon |-> 0]

\* C8: with no database error and no customer over the per-customer limit, a
\* coupon with max_uses set has times_used at most max_uses and is carried by
\* at most max_uses orders that are not cancelled.
C8_MaxUses ==
    (/\ faults = 0
     /\ \A c \in DOMAIN coupons : \A u \in Customers :
            UsageCount(usages, c, u) <= coupons[c].max_uses_per_customer)
        => \A c \in DOMAIN coupons :
               (coupons[c].max_uses # Null /\ coupons[c].max_uses # 0)
                   => /\ coupons[c].times_used <= coupons[c].max_uses
                      /\ Cardinality({o \in DOMAIN orders :
                                         /\ orders[o].coupon = c
                                         /\ orders[o].order_status # "cancelled"})
                             <= coupons[c].max_uses

\* C9: with no database error, the CouponUsage rows of a coupon and a
\* customer never number more than max_uses_per_customer.
C9_PerCustomer ==
    faults = 0
        => \A c \in DOMAIN coupons : \A u \in Customers :
               UsageCount(usages, c, u) <= coupons[c].max_uses_per_customer

\* C10: every order has total_amount = subtotal + cod_fee - coupon_discount,
\* with subtotal the sum of display_price x quantity over its items and
\* cod_fee 50.00 when subtotal < 500.00 and 0.00 otherwise.
C10_Totals ==
    \A o \in DOMAIN orders :
        /\ orders[o].subtotal
               = SeqSum([i \in DOMAIN orders[o].items |->
                            orders[o].items[i].display_price * orders[o].items[i].quantity])
        /\ orders[o].cod_fee = IF orders[o].subtotal < 50000 THEN 5000 ELSE 0
        /\ orders[o].total_amount
               = orders[o].subtotal + orders[o].cod_fee - orders[o].coupon_discount

\* The variants written by a step: created, or saved with another row
Mutated(v) == v \notin DOMAIN variants \/ variants'[v] # variants[v]

\* C11: after every step that creates or saves a variant (update_variant_stock,
\* create_product with variants, update_product with new_variants, the debit of
\* an order, the credit of a cancellation), the product of that variant, when
\* it has active variants, has stock_quantity equal to the sum of
\* stock_quantity over its active variants.
C11_StockIsVariantSum ==
    [][\A v \in DOMAIN variants' :
          Mutated(v)
              => LET p == variants'[v].product
                 IN  (\E u \in DOMAIN variants' :
                         variants'[u].product = p /\ variants'[u].is_active)
                         => products'[p].stock_quantity = TotalStock(variants', p)
      ]_vars

\* The price (paise) that is x fine units up to the rounding to 2 decimals
RoundsTo(price, x) == 100 * price - x < 100 /\ x - 100 * price < 100

\* C12: every stored product has display_price equal to
\* base_price x (1 + commission_rate/100), from its own commission_rate, up to
\* the rounding to 2 decimals, for every commission_rate >= 0, 0 included.
C12_DisplayPrice ==
    \A p \in DOMAIN products :
        RoundsTo(products[p].display_price,
                 products[p].base_price * (100 + products[p].commission_rate))

\* C13: requests handled one after the other: cancel_customer_order takes a
\* request past its checks only when the caller is a customer, the order is
\* the caller's own and its status is placed or confirmed, and the handler
\* then works on that order; a request answered by the checks is answered
\* 400, 403 or 404 and leaves every order, every stock quantity and every
\* coupon counter as it was.
C13_CustomerCancelGate ==
    [][/\ \A w \in Workers :
            (req'[w].op = "cancel_customer_order" /\ req'[w] # req[w])
                => /\ user_type(req'[w].user) = "customer"
                   /\ req'[w].target \in DOMAIN orders
                   /\ orders[req'[w].target].customer = req'[w].user
                   /\ orders[req'[w].target].order_status \in {"placed", "confirmed"}
       /\ (AnsweredAtOnce /\ last'.op = "cancel_customer_order")
            => /\ last'.outcome \in {"400", "403", "404"}
               /\ orders' = orders
               /\ Levels' = Levels
       /\ (last = NoResponse /\ last'.op = "cancel_customer_order" /\ last'.outcome = "200")
            => /\ orders[last'.target].customer = last'.user
               /\ \A o \in DOMAIN orders : o # last'.target => orders'[o] = orders[o]
      ]_vars

\* C13, its case: a customer's request to cancel another customer's order,
\* placed or confirmed, was answered 404
C13_Reached ==
    /\ last.op = "cancel_customer_order"
    /\ last.outcome = "404"
    /\ user_type(last.user) = "customer"
    /\ last.target \in DOMAIN orders
    /\ orders[last.target].customer # last.user
    /\ orders[last.target].order_status \in {"placed", "confirmed"}

\* The coupon a response is about: the one with the code the request gave
CouponOf(code) == CHOOSE c \in DOMAIN coupons : coupons[c].code = code

\* The answers that tell why a coupon is not valid now
ValidityReasons == {"inactive", "not_yet_valid", "expired", "limit_reached"}

\* The validity of a coupon as specified: max_uses counts whenever it is set
Validity(c) ==
    IF ~c.is_active THEN "inactive"
    ELSE IF now < c.valid_from THEN "not_yet_valid"
    ELSE IF now > c.valid_to THEN "expired"
    ELSE IF c.max_uses # Null /\ c.times_used >= c.max_uses THEN "limit_reached"
    ELSE "valid"

\* C14: validate_coupon, which asks Coupon.is_valid first, answers a request
\* for an existing coupon with: inactive when is_active is false; else not yet
\* valid when now < valid_from; else expired when now > valid_to; else usage
\* limit reached when max_uses is set (0 included) and times_used >= max_uses;
\* and with none of these otherwise (now equal to valid_from or valid_to
\* included).
C14_IsValid ==
    (last.op = "validate_coupon" /\ \E c \in DOMAIN coupons : coupons[c].code = last.code)
        => LET c == coupons[CouponOf(last.code)]
           IN  IF Validity(c) = "valid" THEN last.reason \notin ValidityReasons
               ELSE last.outcome = "400" /\ last.reason = Validity(c)

\* An order item is in the scope of a coupon: all items, the items whose
\* product is of the coupon's category, or the items of the coupon's product
InScope(c, it) ==
    \/ c.applicability = "all"
    \/ c.applicability = "category" /\ products[it.product_id].category = c.category
    \/ c.applicability = "product" /\ it.product_id = c.product

\* The sum of item_subtotal over the items in the coupon's scope
ScopeSum(c, items) ==
    SeqSum([i \in DOMAIN items |->
               IF InScope(c, items[i]) THEN items[i].item_subtotal ELSE 0])

\* C15: a create_order request past its checks with a coupon has computed the
\* discount applicable_total x discount_value / 100 for a percentage coupon
\* and min(discount_value, applicable_total) for a fixed one (here in 1/100
\* paise), applicable_total being the sum of item_subtotal over the items in
\* the coupon's scope, so that 0 <= discount <= applicable_total <= subtotal;
\* without a coupon the discount is 0; and every order has
\* 0 <= coupon_discount <= applicable_total <= subtotal and total_amount >= 0.
C15_Discount ==
    /\ \A w \in Workers :
           (req[w].op = "create_order" /\ Active(w))
               => IF req[w].coupon = Null THEN req[w].discount = 0
                  ELSE LET c == req[w].cobj
                           at == ScopeSum(c, req[w].totals.items)
                       IN  /\ req[w].discount
                                  = IF c.discount_type = "percentage"
                                    THEN at * c.discount_value
                                    ELSE 100 * MinOf({c.discount_value, at})
                           /\ 0 <= req[w].discount
                           /\ req[w].discount <= 100 * at
                           /\ at <= req[w].totals.subtotal
    /\ \A o \in DOMAIN orders :
           /\ 0 <= orders[o].coupon_discount
           /\ orders[o].coupon = Null => orders[o].coupon_discount = 0
           /\ orders[o].coupon # Null
                  => orders[o].coupon_discount
                         <= ScopeSum(coupons[orders[o].coupon], orders[o].items)
           /\ orders[o].coupon_discount <= orders[o].subtotal
           /\ orders[o].total_amount >= 0

\* C15, its case: an order with a fixed coupon worth more than the items in
\* its scope, which are not the whole cart: the discount is the applicable
\* total
C15_Reached ==
    \E o \in DOMAIN orders :
        /\ orders[o].coupon # Null
        /\ LET c == coupons[orders[o].coupon]
               at == ScopeSum(c, orders[o].items)
           IN  /\ c.discount_type = "fixed"
               /\ c.discount_value > at
               /\ at > 0
               /\ at < orders[o].subtotal
               /\ orders[o].coupon_discount = at

\* The price of a cart line: the listed display_price times the quantity
LineSubtotal(line) == products[line.product_id].display_price * line.quantity

\* The sum of the line prices over the cart lines in the coupon's scope
CartScopeSum(c, cart) ==
    SeqSum([i \in DOMAIN cart |-> IF InScope(c, cart[i]) THEN LineSubtotal(cart[i]) ELSE 0])

\* The subtotal of the whole cart
CartSubtotal(cart) == SeqSum([i \in DOMAIN cart |-> LineSubtotal(cart[i])])

\* C16: a create_order request answered with the minimum-order error is
\* answered 400, leaves every row as it was (no order, no counter changed) and
\* has a cart whose lines in the coupon's scope sum to less than
\* min_order_value; a create_order request taken past the checks with a coupon
\* has a cart whose lines in the coupon's scope sum to at least
\* min_order_value.  The subtotal of the whole cart plays no part.
C16_MinOrderValue ==
    [][/\ (AnsweredAtOnce /\ last'.op = "create_order" /\ last'.reason = "min_order_value")
            => /\ last'.outcome = "400"
               /\ tables' = tables
               /\ CartScopeSum(coupons[CouponOf(last'.code)], last'.cart)
                      < coupons[CouponOf(last'.code)].min_order_value
       /\ \A w \in Workers :
            (Accepts(w) /\ req'[w].op = "create_order" /\ req'[w].coupon # Null)
                => CartScopeSum(req'[w].cobj, req'[w].cart) >= req'[w].cobj.min_order_value
      ]_vars

\* C16, its case: a cart whose subtotal reaches min_order_value while its
\* lines in the coupon's scope do not was rejected with the minimum-order error
C16_Reached ==
    /\ last.op = "create_order"
    /\ last.outcome = "400"
    /\ last.reason = "min_order_value"
    /\ CartSubtotal(last.cart) >= coupons[CouponOf(last.code)].min_order_value
    /\ CartScopeSum(coupons[CouponOf(last.code)], last.cart) > 0
    /\ orders = <<>>

\* The shops of the products on the lines of a cart
CartShops(cart) == {products[cart[i].product_id].shop : i \in DOMAIN cart}

\* C17: every order that carries a coupon has the coupon's shop as its shop
\* and as the shop of the product of every one of its items; a create_order
\* request with a coupon code is answered 201 only if a coupon with that code
\* exists in the shop of the cart's products; and validate_coupon answers 200
\* only for a cart whose products are all of the coupon's shop.
C17_SameShop ==
    /\ \A o \in DOMAIN orders :
           orders[o].coupon # Null
               => /\ coupons[orders[o].coupon].shop = orders[o].shop
                  /\ \A i \in DOMAIN orders[o].items :
                         products[orders[o].items[i].product_id].shop = orders[o].shop
    /\ (last.op = "create_order" /\ last.code # "" /\ last.outcome = "201")
           => \E c \in DOMAIN coupons :
                  /\ coupons[c].code = last.code
                  /\ CartShops(last.cart) = {coupons[c].shop}
    /\ (last.op = "validate_coupon" /\ last.outcome = "200")
           => CartShops(last.cart) \subseteq {coupons[CouponOf(last.code)].shop}

\* C17, its case: a create_order request whose cart is of one shop, with the
\* code of a coupon of the other shop, was rejected as an invalid coupon code
C17_Reached ==
    /\ last.op = "create_order"
    /\ last.outcome = "400"
    /\ last.reason = "invalid_coupon"
    /\ \E c \in DOMAIN coupons :
           /\ coupons[c].code = last.code
           /\ is_valid(coupons[c]) = "valid"
           /\ Cardinality(CartShops(last.cart)) = 1
           /\ coupons[c].shop \notin CartShops(last.cart)

\* C17, another case: validate_coupon rejected a cart holding a product of
\* another shop than the coupon's
C17_ValidateReached ==
    /\ last.op = "validate_coupon"
    /\ last.outcome = "400"
    /\ last.reason = "other_shop"
    /\ ~(CartShops(last.cart) \subseteq {coupons[CouponOf(last.code)].shop})

\* C18: every order has commission_amount and seller_payout_amount equal to
\* the sums of (display_price - base_price) x quantity and of
\* base_price x quantity over its items, whether it carries a coupon or not,
\* and the seller's net cash total_amount - commission_amount - cod_fee equals
\* seller_payout_amount - coupon_discount.
C18_CommissionUntouched ==
    \A o \in DOMAIN orders :
        /\ orders[o].commission_amount
               = SeqSum([i \in DOMAIN orders[o].items |->
                            (orders[o].items[i].display_price - orders[o].items[i].base_price)
                                * orders[o].items[i].quantity])
        /\ orders[o].seller_payout_amount
               = SeqSum([i \in DOMAIN orders[o].items |->
                            orders[o].items[i].base_price * orders[o].items[i].quantity])
        /\ orders[o].total_amount - orders[o].commission_amount - orders[o].cod_fee
               = orders[o].seller_payout_amount - orders[o].coupon_discount

\* The sum of one field over the items of an order
ItemSum(o, field) == SeqSum([i \in DOMAIN orders[o].items |-> orders[o].items[i][field]])

\* C19: every item of every order has item_subtotal = display_price x quantity,
\* commission_amount = (display_price - base_price) x quantity and
\* seller_amount = item_subtotal - commission_amount; the order's subtotal,
\* commission_amount and seller_payout_amount are the sums of these three
\* fields over its items, so that subtotal = commission_amount +
\* seller_payout_amount.
C19_ItemArithmetic ==
    \A o \in DOMAIN orders :
        /\ \A i \in DOMAIN orders[o].items :
               LET it == orders[o].items[i]
               IN  /\ it.item_subtotal = it.display_price * it.quantity
                   /\ it.commission_amount = (it.display_price - it.base_price) * it.quantity
                   /\ it.seller_amount = it.item_subtotal - it.commission_amount
        /\ orders[o].subtotal = ItemSum(o, "item_subtotal")
        /\ orders[o].commission_amount = ItemSum(o, "commission_amount")
        /\ orders[o].seller_payout_amount = ItemSum(o, "seller_amount")
        /\ orders[o].subtotal = orders[o].commission_amount + orders[o].seller_payout_amount

\* C19, its case: an order with items of two products, each sold with a
\* commission
C19_Reached ==
    \E o \in DOMAIN orders :
        /\ Len(orders[o].items) = 2
        /\ orders[o].items[1].product_id # orders[o].items[2].product_id
        /\ \A i \in DOMAIN orders[o].items : orders[o].items[i].commission_amount > 0
        /\ mode = "serial"

\* C20: a create_order request is taken past its checks only if the shop of
\* every product in its cart is approved at that moment, so that no order is
\* created for a shop that is pending or rejected.
C20_ApprovedShopsOnly ==
    [][\A w \in Workers :
          (Accepts(w) /\ req'[w].op = "create_order")
              => \A sh \in CartShops(req'[w].cart) : allshops[sh].is_approved
      ]_vars

\* The stock check of a cart line as the specification words it, on the
\* committed rows: "ok", "variant_not_found" or "insufficient_stock" for a
\* line that names a size, "other" for a line the claim does not cover
VariantLineCheck(line) ==
    IF line.size = NoSize \/ ~products[line.product_id].is_active THEN "other"
    ELSE LET S == {v \in DOMAIN variants :
                      /\ variants[v].product = line.product_id
                      /\ variants[v].size = line.size
                      /\ variants[v].is_active}
         IN  IF S = {} THEN "variant_not_found"
             ELSE IF variants[MinOf(S)].stock_quantity < line.quantity
                  THEN "insufficient_stock"
             ELSE "ok"

\* The cart a create_order step of worker w is handling, <<>> for another step
HandledCart(w) ==
    IF last = NoResponse /\ req[w].pc = "idle" /\ last'.op = "create_order"
    THEN last'.cart
    ELSE IF last = NoResponse /\ req[w].pc = "idle" /\ req'[w].op = "create_order"
    THEN req'[w].cart
    ELSE <<>>

\* C21: a create_order whose first cart line names a size and finds the
\* matching active variant with less stock than the quantity asked is answered
\* 400 with the insufficient-stock reason, and one whose first line finds no
\* matching active variant is answered 400 as variant not found; both leave
\* every row as it was.
C21_VariantShortOfStock ==
    [][\A w \in Workers :
          (HandledCart(w) # <<>>
              /\ VariantLineCheck(HandledCart(w)[1]) \in {"insufficient_stock",
                                                         "variant_not_found"})
             => /\ last'.outcome = "400"
                /\ last'.reason = VariantLineCheck(HandledCart(w)[1])
                /\ tables' = tables
      ]_vars

\* The caller of a request or response does not own the order it names
NotOwned(r) ==
    /\ r.target \in DOMAIN orders
    /\ IF user_type(r.user) = "customer"
       THEN orders[r.target].customer # r.user
       ELSE orders[r.target].shop # ShopOf(r.user)

\* The endpoints that name an order, with the kind of caller each one serves
OrderEndpoints ==
    [get_order_detail |-> {"customer", "seller"},
     update_order_status |-> {"seller"},
     cancel_customer_order |-> {"customer"}]

\* C23: a get_order_detail, update_order_status or cancel_customer_order
\* request that names an order of another customer or of another seller's
\* shop is answered as one that names no order at all: 404 for a caller the
\* endpoint serves, 403 for any other caller, with no reason given, and it
\* changes no row.
C23_NotOwnedIsNotFound ==
    [][(/\ last = NoResponse
        /\ last'.op \in DOMAIN OrderEndpoints
        /\ NotOwned(last') \/ last'.target \notin DOMAIN orders)
          => /\ last'.outcome = IF user_type(last'.user) \in OrderEndpoints[last'.op]
                                THEN "404" ELSE "403"
             /\ last'.reason = ""
             /\ tables' = tables
             /\ req' = req
      ]_vars

\* C23, its case: the seller asked to move on an order of the shop of another
\* seller
C23_Reached ==
    /\ mode = "access"
    /\ last.op = "update_order_status"
    /\ user_type(last.user) = "seller"
    /\ NotOwned(last)
    /\ last.outcome = "404"

\* Product p has an active variant in the variants V
HasActiveVariants(V, p) == \E v \in DOMAIN V : V[v].product = p /\ V[v].is_active

\* C24: every step that writes the stock_quantity of a product that has
\* active variants, an update_product that sends stock_quantity and the debit
\* of an order line without size among them, leaves it equal to the sum of
\* stock_quantity over the product's active variants.
C24_AggregateOnlyRecomputed ==
    [][\A p \in DOMAIN products :
          (/\ products'[p].stock_quantity # products[p].stock_quantity
           /\ HasActiveVariants(variants', p))
              => products'[p].stock_quantity = TotalStock(variants', p)
      ]_vars

\* The timestamp field stamped on entering a status
StampOf ==
    [confirmed |-> "confirmed_at", shipped |-> "shipped_at",
     delivered |-> "delivered_at", cancelled |-> "cancelled_at"]

\* C25: requests handled one after the other: an order is created placed,
\* unpaid and with no timestamp; in every later step each of confirmed_at,
\* shipped_at, delivered_at and cancelled_at is set exactly if it was set
\* before or the step takes the order into that status, whichever handler
\* does it; and in every state an order is paid exactly if it is delivered,
\* and a delivered order has confirmed_at, shipped_at and delivered_at set.
C25_StampsFollowStatus ==
    [][mode = "serial" =>
        \A o \in DOMAIN orders' :
          LET new == orders'[o]
          IN  /\ IF o \in DOMAIN orders
                 THEN \A s \in DOMAIN StampOf :
                         new[StampOf[s]]
                             = (orders[o][StampOf[s]]
                                  \/ (new.order_status = s /\ orders[o].order_status # s))
                 ELSE /\ new.order_status = "placed"
                      /\ \A s \in DOMAIN StampOf : ~new[StampOf[s]]
              /\ new.payment_status = "paid" <=> new.order_status = "delivered"
              /\ new.order_status = "delivered"
                    => new.confirmed_at /\ new.shipped_at /\ new.delivered_at
      ]_vars

\* C25, its case: the seller has delivered an order
C25_Reached ==
    /\ mode = "serial"
    /\ last.op = "update_order_status"
    /\ last.new_status = "delivered"
    /\ last.outcome = "200"
    /\ orders[last.target].order_status = "delivered"
    /\ orders[last.target].payment_status = "paid"

\* The financial record of an order: what create_order stored, with its items
Financial(o) ==
    [customer |-> o.customer, shop |-> o.shop, subtotal |-> o.subtotal,
     cod_fee |-> o.cod_fee, coupon_discount |-> o.coupon_discount,
     total_amount |-> o.total_amount, commission_amount |-> o.commission_amount,
     seller_payout_amount |-> o.seller_payout_amount, items |-> o.items]

\* C26: no step of update_order_status, cancel_customer_order, update_product,
\* update_variant_stock or update_coupon, nor any other step, changes the
\* order_number, customer, shop, subtotal, cod_fee, coupon_discount,
\* total_amount, commission_amount or seller_payout_amount of an order that
\* exists, or any field of its items.
C26_FinancialRecordFrozen ==
    [][\A o \in DOMAIN orders :
          /\ o \in DOMAIN orders'
          /\ Financial(orders'[o]) = Financial(orders[o])
      ]_vars

\* C26, its case: the seller has changed the base_price of a product that an
\* order holds an item of, and the item keeps the price it was sold at
C26_Reached ==
    /\ mode = "access"
    /\ last.op = "update_product"
    /\ last.outcome = "200"
    /\ \E o \in DOMAIN orders : \E i \in DOMAIN orders[o].items :
          /\ orders[o].items[i].product_id = last.target
          /\ orders[o].items[i].base_price # products[last.target].base_price

\* The orders that carry coupon c and are not cancelled
Redemptions(c) ==
    {o \in DOMAIN orders : orders[o].coupon = c /\ orders[o].order_status # "cancelled"}

\* No request is being handled
Quiet == \A w \in Workers : ~Active(w)

\* C27: requests handled one after the other: whenever no request is being
\* handled, the times_used of every coupon is the number of orders that carry
\* the coupon and are not cancelled, and it is never negative.
C27_TimesUsedInLockstep ==
    /\ \A c \in DOMAIN coupons : coupons[c].times_used >= 0
    /\ (mode = "serial" /\ Quiet)
          => \A c \in DOMAIN coupons :
                 coupons[c].times_used = Cardinality(Redemptions(c))

\* The units of target t held by the orders that are not cancelled
UnitsHeld(t) ==
    SeqSum([o \in DOMAIN orders |->
               IF orders[o].order_status # "cancelled"
               THEN Held(orders[o].items, t) ELSE 0])

\* C28: requests handled one after the other, the seller editing no stock:
\* whenever no request is being handled, the stock_quantity of a product
\* without variants plus the units of it held by the orders that are not
\* cancelled is the stock it started with, and so is the stock_quantity of
\* every variant plus the units of it held by those orders.
C28_StockConserved ==
    (mode = "serial" /\ Quiet)
        => /\ \A p \in DOMAIN products :
                  (\A v \in DOMAIN variants : variants[v].product # p)
                      => products[p].stock_quantity + UnitsHeld(<<"product", p>>)
                             = supply.products[p]
           /\ \A v \in DOMAIN variants :
                  variants[v].stock_quantity + UnitsHeld(<<"variant", v>>)
                      = supply.variants[v]

\* The customer of a request or response has a coupon of that code used up to
\* max_uses_per_customer, by the CouponUsage rows
UsedUp(r) ==
    \E c \in DOMAIN coupons :
        /\ coupons[c].code = r.code
        /\ UsageCount(usages, c, r.user) >= coupons[c].max_uses_per_customer

\* C29: requests handled one after the other: no step removes or changes a
\* CouponUsage row, so that the step of a cancellation that takes 1 off
\* times_used leaves the rows counted by can_user_use as they are; and a
\* create_order with the code of a coupon that its customer has used
\* max_uses_per_customer times is never taken past the checks and never
\* answered 201, whatever has been cancelled since.
C29_CancelKeepsUsage ==
    [][mode = "serial" =>
        /\ \A i \in DOMAIN usages : i \in DOMAIN usages' /\ usages'[i] = usages[i]
        /\ \A w \in Workers :
              (Accepts(w) /\ req'[w].op = "create_order" /\ req'[w].code # "")
                  => ~UsedUp(req'[w])
        /\ (last = NoResponse /\ last'.op = "create_order" /\ last'.code # ""
              /\ UsedUp(last'))
              => last'.outcome # "201"
      ]_vars

\* C29, its case: a customer whose only order with the coupon is cancelled,
\* the coupon's times_used back at 0, asks for the coupon again and is refused
C29_Reached ==
    /\ mode = "serial"
    /\ last.op = "create_order"
    /\ last.outcome = "400"
    /\ last.reason = "already_used"
    /\ \E c \in DOMAIN coupons :
          /\ coupons[c].code = last.code
          /\ coupons[c].times_used = 0
          /\ \A o \in DOMAIN orders :
                (orders[o].coupon = c /\ orders[o].customer = last.user)
                    => orders[o].order_status = "cancelled"

\* The first of the checks of create_review that a request or response r
\* (caller, order and product named) fails on the rows as they are
ReviewCheck(r) ==
    LET o == orders[r.target]
    IN  IF o.customer # r.user THEN "not_owner"
        ELSE IF o.order_status # "delivered" THEN "not_delivered"
        ELSE IF \A i \in DOMAIN o.items : o.items[i].product_id # r.product
             THEN "not_in_order"
        ELSE IF \E i \in DOMAIN reviews :
                   /\ reviews[i].product = r.product
                   /\ reviews[i].order = r.target
                   /\ reviews[i].customer = r.user
             THEN "duplicate"
        ELSE "ok"

\* C22: a create_review request is taken past its checks only if the order is
\* the caller's, is delivered, has an item of the product and has no review of
\* (product, order, customer) yet; a request that names a product and an order
\* and is answered by the checks fails on the first of these in that order:
\* 403 for an order of someone else, then 400 for an order not delivered, for
\* a product not in the order, for a review that exists; a review is added
\* only by a request past the checks; and in every state each review is of a
\* delivered order of its author with an item of its product, and no two
\* reviews are of the same (product, order, customer).
C22_ReviewChecks ==
    [][/\ \A w \in Workers :
             (Accepts(w) /\ req'[w].op = "create_review") => ReviewCheck(req'[w]) = "ok"
       /\ (AnsweredAtOnce /\ last'.op = "create_review" /\ last'.reason # "invalid")
             => /\ ReviewCheck(last') # "ok"
                /\ last'.outcome = IF ReviewCheck(last') = "not_owner" THEN "403" ELSE "400"
                /\ last'.reason = IF ReviewCheck(last') = "not_owner" THEN ""
                                  ELSE ReviewCheck(last')
       /\ reviews' # reviews
             => \E w \in Workers :
                   /\ req[w].op = "create_review" /\ req[w].pc = "cr_insert"
                   /\ reviews' = Append(reviews, [product |-> req[w].product,
                                                  order |-> req[w].target,
                                                  customer |-> req[w].user,
                                                  rating |-> req[w].rating])
       /\ \A i \in DOMAIN reviews' :
             LET o == orders'[reviews'[i].order]
             IN  /\ o.customer = reviews'[i].customer
                 /\ o.order_status = "delivered"
                 /\ \E k \in DOMAIN o.items : o.items[k].product_id = reviews'[i].product
                 /\ reviews'[i].rating \in 1..5
       /\ \A i, j \in DOMAIN reviews' :
             (/\ reviews'[i].product = reviews'[j].product
              /\ reviews'[i].order = reviews'[j].order
              /\ reviews'[i].customer = reviews'[j].customer) => i = j
      ]_vars

\* C22, its case: a second review of the same product and order by the same
\* customer was refused as a duplicate
C22_Reached ==
    /\ mode = "review"
    /\ last.op = "create_review"
    /\ last.outcome = "400"
    /\ last.reason = "duplicate"
    /\ \E i \in DOMAIN reviews :
          /\ reviews[i].product = last.product
          /\ reviews[i].order = last.target
          /\ reviews[i].customer = last.user

\* C30: a step of a create_review request changes no row but the Review it
\* inserts and, in the step that saves the product, the product's
\* average_rating and review_count, the latter becoming the number of the
\* product's reviews: the stock_quantity, base_price, commission_rate and
\* display_price stored for the product, also by a create_order or a
\* cancellation that committed while the review was being handled, stay as
\* they are.
C30_ReviewWritesRatingOnly ==
    [][\A w \in Workers :
          (req'[w] # req[w] /\ "create_review" \in {req[w].op, req'[w].op})
              => /\ variants' = variants /\ coupons' = coupons
                 /\ usages' = usages /\ orders' = orders
                 /\ IF req[w].pc = "cr_save"
                    THEN products' =
                            [products EXCEPT
                                ![req[w].product].average_rating =
                                    products'[req[w].product].average_rating,
                                ![req[w].product].review_count =
                                    Cardinality({i \in DOMAIN reviews :
                                                    reviews[i].product = req[w].product})]
                    ELSE products' = products
      ]_vars

====
